---- MODULE Spec2Model ----
(***************************************************************************)
(* Model of the legal-evidence-organizer backend: raw-record ingestion     *)
(* (mail, chat logs, PDFs), the aggregation of raw records into one item   *)
(* list, the LLM orchestration calls and the writers of the derived rows   *)
(* (Timeline + TimelineEvent, Report).                                     *)
(*                                                                         *)
(* Conventions.                                                            *)
(*  - A datetime is the tuple <<year, month, day, hour, minute, second,    *)
(*    microsecond>>; a NULL datetime column is the empty tuple.            *)
(*  - A Python str that the code compares or sorts is a sequence of        *)
(*    one-character strings; other text is a TLA+ string.                  *)
(*  - A table is a set of rows with distinct primary keys `id`; primary    *)
(*    keys are handed out from a counter and never reused.                 *)
(*  - A background task is a record whose `pc` names the await point the   *)
(*    coroutine is suspended at; one action runs the code between two      *)
(*    await points.                                                        *)
(***************************************************************************)
EXTENDS Integers, Sequences, FiniteSets, TLC

VARIABLES
    emails,         \* table emails (models.Email)
    chats,          \* table chat_logs (models.ChatLog)
    pdfs,           \* table pdfs (models.PDFDocument)
    agg_pc,         \* aggregation run: "idle" | "done"
    agg_in,         \* rows as retrieved by the three SELECTs of the run
    agg_events,     \* item list handed to gemini_service.generate_timeline
    svc,            \* last call of each orchestration function: outcome of
                    \* the provider call and the value returned to the caller
    timelines,      \* table timelines (models.Timeline)
    timeline_events,\* table timeline_events (models.TimelineEvent)
    reports,        \* table reports (models.Report)
    next_id,        \* last primary key handed out, per table
    deleted,        \* per table, the ids removed by a DELETE request
    tl_req,         \* POST /timeline/generate requests, by timeline id
    tl_task,        \* generate_timeline_task coroutines, by timeline id
    rp_req,         \* POST /report/generate requests, by report id
    rp_task,        \* generate_report_task coroutines, by report id
    raw_next_id,    \* last primary key handed out, per raw table
    em_task,        \* fetch_and_save_emails coroutines
    pdf_task,       \* process_pdf_file background tasks of upload_pdf
    chat_file,      \* text of the uploaded chat log, as its header matches
    chat_task,      \* process_chat_file background task of upload_chat_log
    http_response,  \* the last HTTP response sent, with the request it answers
    evidence_table, \* table evidence (models.Evidence)
    ev_task         \* analyze_evidence_task coroutines

rawVars == <<emails, chats, pdfs>>
aggVars == <<agg_pc, agg_in, agg_events>>
llmVars == <<svc>>
tlVars == <<timelines, timeline_events, tl_req, tl_task>>
rpVars == <<reports, rp_req, rp_task>>
genVars == <<timelines, timeline_events, reports, next_id, deleted, tl_req, tl_task, rp_req, rp_task>>
ingestVars == <<raw_next_id, em_task, pdf_task, chat_file, chat_task>>
evVars == <<evidence_table, ev_task>>
vars == <<emails, chats, pdfs, agg_pc, agg_in, agg_events, svc,
          timelines, timeline_events, reports, next_id, deleted, tl_req, tl_task, rp_req, rp_task,
          raw_next_id, em_task, pdf_task, chat_file, chat_task,
          http_response, evidence_table, ev_task>>

----------------------------------------------------------------------------
(* Generic helpers *)

NULL == <<>>

Range(f) == {f[i] : i \in DOMAIN f}

\* All sequences that enumerate the finite set S exactly once (the possible
\* result orders of a SELECT without ORDER BY).
Orderings(S) ==
    {q \in [1..Cardinality(S) -> S] : \A i, j \in 1..Cardinality(S) : (i # j) => (q[i] # q[j])}

RECURSIVE SelectSeq2(_, _)
\* [e for e in seq if Test(e)], Test given as the set of accepted elements
SelectSeq2(seq, keep) ==
    IF seq = <<>> THEN <<>>
    ELSE IF Head(seq) \in keep
         THEN <<Head(seq)>> \o SelectSeq2(Tail(seq), keep)
         ELSE SelectSeq2(Tail(seq), keep)

----------------------------------------------------------------------------
(* datetime: comparison and isoformat() *)

RECURSIVE TupleLess(_, _)
\* Python's ordering of naive datetimes = lexicographic order of the fields
TupleLess(a, b) ==
    IF a = <<>> \/ b = <<>> THEN FALSE
    ELSE IF Head(a) # Head(b) THEN Head(a) < Head(b)
    ELSE TupleLess(Tail(a), Tail(b))

DtLeq(a, b) == a = b \/ TupleLess(a, b)

DigitChar == <<"0", "1", "2", "3", "4", "5", "6", "7", "8", "9">>

RECURSIVE NoPad(_, _)
NoPad(n, width) ==
    IF n < 10 THEN <<DigitChar[n + 1]>>
    ELSE NoPad(n \div 10, width - 1) \o <<DigitChar[(n % 10) + 1]>>

RECURSIVE ZeroPad(_, _)
\* "%0<width>d" % n
ZeroPad(n, width) ==
    IF width = 0 THEN <<>>
    ELSE ZeroPad(n \div 10, width - 1) \o <<DigitChar[(n % 10) + 1]>>

\* datetime.isoformat(): "YYYY-MM-DDTHH:MM:SS", with ".ffffff" appended when
\* the microsecond is not 0
IsoFormat(dt) ==
    ZeroPad(dt[1], 4) \o <<"-">> \o ZeroPad(dt[2], 2) \o <<"-">> \o ZeroPad(dt[3], 2)
      \o <<"T">> \o ZeroPad(dt[4], 2) \o <<":">> \o ZeroPad(dt[5], 2) \o <<":">> \o ZeroPad(dt[6], 2)
      \o (IF dt[7] # 0 THEN <<".">> \o ZeroPad(dt[7], 6) ELSE <<>>)

\* ord() of the characters isoformat() can produce
Ord(c) ==
    CASE c = "-" -> 45
      [] c = "." -> 46
      [] c = "0" -> 48 [] c = "1" -> 49 [] c = "2" -> 50 [] c = "3" -> 51
      [] c = "4" -> 52 [] c = "5" -> 53 [] c = "6" -> 54 [] c = "7" -> 55
      [] c = "8" -> 56 [] c = "9" -> 57
      [] c = ":" -> 58
      [] c = "T" -> 84

RECURSIVE StrLess(_, _)
\* Python's str `<`: code point by code point, a proper prefix is smaller
StrLess(a, b) ==
    IF b = <<>> THEN FALSE
    ELSE IF a = <<>> THEN TRUE
    ELSE IF Head(a) # Head(b) THEN Ord(Head(a)) < Ord(Head(b))
    ELSE StrLess(Tail(a), Tail(b))

----------------------------------------------------------------------------
(* JSON values.  Every value has the same record shape, so that any two     *)
(* values can be compared; `t` is the Python type of the value:             *)
(* "dict" (payload d), "list" (payload l), "str" (payload s), "int"         *)
(* (payload n) or "NoneType".                                               *)

NoDict == [k \in {} |-> 0]
JNone == [t |-> "NoneType", s |-> "", n |-> 0, l |-> <<>>, d |-> NoDict]
JStr(s) == [t |-> "str", s |-> s, n |-> 0, l |-> <<>>, d |-> NoDict]
JInt(n) == [t |-> "int", s |-> "", n |-> n, l |-> <<>>, d |-> NoDict]
JList(l) == [t |-> "list", s |-> "", n |-> 0, l |-> l, d |-> NoDict]
JDict(d) == [t |-> "dict", s |-> "", n |-> 0, l |-> <<>>, d |-> d]

\* outcome of json.loads on a text that is not a JSON document
JSONDecodeError == [t |-> "JSONDecodeError", s |-> "", n |-> 0, l |-> <<>>, d |-> NoDict]
\* outcome of a call that lets an exception escape to its caller
Raised(msg) == [t |-> "raised", s |-> msg, n |-> 0, l |-> <<>>, d |-> NoDict]

\* key in a dict
HasKey(v, k) == v.t = "dict" /\ k \in DOMAIN v.d

\* dict.get(k, default)
Get(v, k, default) == IF k \in DOMAIN v.d THEN v.d[k] ELSE default

----------------------------------------------------------------------------
(* Replies of the generative text service and json.loads on them *)

PLACEHOLDER_TIMELINE == "Generating timeline... This may take a few minutes."
PLACEHOLDER_REPORT == "Generating report... This may take a few minutes."

Ev1 ==
    JDict([date |-> JStr("2024-01-02"), title |-> JStr("Contract signed"),
           description |-> JStr("Both parties sign"), relevance |-> JStr("Formation"),
           source |-> JStr("email:1")])
Ev2 ==
    JDict([date |-> JStr("March 2024"), title |-> JStr("Invoice disputed"),
           description |-> JStr("Payment withheld"), relevance |-> JStr("Breach"),
           source |-> JStr("chat:2")])
\* event objects that differ in their date only: not zero-padded, a
\* number, an empty text, null, no date at all
EvShortDate ==
    JDict([date |-> JStr("2024-1-2"), title |-> JStr("Notice sent"),
           description |-> JStr("Notice of default"), source |-> JStr("email:1")])
EvIntDate ==
    JDict([date |-> JInt(2024), title |-> JStr("Meeting"),
           description |-> JStr("Site meeting"), source |-> JStr("chat:2")])
EvEmptyDate ==
    JDict([date |-> JStr(""), title |-> JStr("Call"),
           description |-> JStr("Phone call"), source |-> JStr("chat:2")])
EvNullDate ==
    JDict([date |-> JNone, title |-> JStr("Letter"),
           description |-> JStr("Letter of claim"), source |-> JStr("email:1")])
EvNoDate ==
    JDict([title |-> JStr("Delivery"), description |-> JStr("Goods delivered"),
           source |-> JStr("email:1")])
\* event objects that differ in their source only
EvSource(source) ==
    JDict([date |-> JStr("2024-01-02"), title |-> JStr("Payment"),
           description |-> JStr("Payment received"), source |-> source])
Rec1 ==
    JDict([source_type |-> JStr("email"), source_id |-> JInt(1), title |-> JStr("Signed contract"),
           description |-> JStr("Contract text"), relevance |-> JStr("Terms"),
           importance |-> JStr("High")])
Rec2 ==
    JDict([source_type |-> JStr("chat"), source_id |-> JInt(2), title |-> JStr("Payment reminder"),
           description |-> JStr("Reminder text"), relevance |-> JStr("Breach")])
\* a recommendation whose title is a JSON array
RecListTitle ==
    JDict([source_type |-> JStr("pdf"), source_id |-> JInt(1),
           title |-> JList(<<JStr("Invoice"), JStr("March")>>),
           description |-> JStr("Invoice text"), relevance |-> JStr("Amount")])

R_TEXT == "I cannot comply"
R_PROSE == "Here is the timeline: {\"overview\": \"Invoice dispute\"}"
R_NULL == "null"
R_LIST == "[]"
R_STR == "\"ok\""
R_INT == "42"
R_EMPTY == "{}"
R_TL_OK == "{\"title\": \"Timeline of Contract Dispute\", \"overview\": \"Invoice dispute\", \"events\": [Ev1, Ev2]}"
R_TL_NOEVENTS == "{\"overview\": \"Invoice dispute\"}"
R_TL_NOOVERVIEW == "{\"events\": [Ev1]}"
R_TL_ECHO == "{\"overview\": \"Generating timeline... This may take a few minutes.\", \"events\": []}"
R_TL_NULLEVENTS == "{\"overview\": \"Invoice dispute\", \"events\": null}"
R_TL_LISTOVERVIEW == "{\"overview\": [\"Invoice dispute\"], \"events\": [Ev1]}"
R_TL_DATES == "{\"overview\": \"Invoice dispute\", \"events\": [Ev1, Ev2, EvShortDate, EvIntDate, EvEmptyDate, EvNullDate, EvNoDate]}"
R_TL_SOURCES == "{\"overview\": \"Invoice dispute\", \"events\": [email:12:34, email:abc, email, pdf:7, email:²]}"
R_EV_OK == "{\"summary\": \"Strong case\", \"key_issues\": [], \"recommended_evidence\": [Rec1], \"evidence_gaps\": []}"
R_EV_STRAY == "{\"recommended_evidence\": [Rec1, \"see attachment\", Rec2]}"
R_EV_LISTTITLE == "{\"recommended_evidence\": [Rec1, RecListTitle, Rec2]}"
R_EV_NULLRECS == "{\"recommended_evidence\": null}"
R_RP_OK == "{\"title\": \"Legal Report: Invoice\", \"executive_summary\": \"Strong case\", \"conclusion\": \"Proceed\"}"

\* json.loads(response): the parsed document, or JSONDecodeError
JsonLoads(response) ==
    CASE response = R_NULL -> JNone
      [] response = R_LIST -> JList(<<>>)
      [] response = R_STR -> JStr("ok")
      [] response = R_INT -> JInt(42)
      [] response = R_EMPTY -> JDict(NoDict)
      [] response = R_TL_OK ->
            JDict([title |-> JStr("Timeline of Contract Dispute"),
                   overview |-> JStr("Invoice dispute"), events |-> JList(<<Ev1, Ev2>>)])
      [] response = R_TL_NOEVENTS -> JDict([overview |-> JStr("Invoice dispute")])
      [] response = R_TL_NOOVERVIEW -> JDict([events |-> JList(<<Ev1>>)])
      [] response = R_TL_ECHO ->
            JDict([overview |-> JStr(PLACEHOLDER_TIMELINE), events |-> JList(<<>>)])
      [] response = R_TL_NULLEVENTS ->
            JDict([overview |-> JStr("Invoice dispute"), events |-> JNone])
      [] response = R_TL_LISTOVERVIEW ->
            JDict([overview |-> JList(<<JStr("Invoice dispute")>>), events |-> JList(<<Ev1>>)])
      [] response = R_TL_DATES ->
            JDict([overview |-> JStr("Invoice dispute"),
                   events |-> JList(<<Ev1, Ev2, EvShortDate, EvIntDate, EvEmptyDate, EvNullDate,
                                      EvNoDate>>)])
      [] response = R_TL_SOURCES ->
            JDict([overview |-> JStr("Invoice dispute"),
                   events |-> JList(<<EvSource(JStr("email:12:34")), EvSource(JStr("email:abc")),
                                      EvSource(JStr("email")), EvSource(JStr("pdf:7")),
                                      EvSource(JStr("email:²"))>>)])
      [] response = R_EV_OK ->
            JDict([summary |-> JStr("Strong case"), key_issues |-> JList(<<>>),
                   recommended_evidence |-> JList(<<Rec1>>), evidence_gaps |-> JList(<<>>)])
      [] response = R_EV_STRAY ->
            JDict([recommended_evidence |-> JList(<<Rec1, JStr("see attachment"), Rec2>>)])
      [] response = R_EV_LISTTITLE ->
            JDict([recommended_evidence |-> JList(<<Rec1, RecListTitle, Rec2>>)])
      [] response = R_EV_NULLRECS -> JDict([recommended_evidence |-> JNone])
      [] response = R_RP_OK ->
            JDict([title |-> JStr("Legal Report: Invoice"),
                   executive_summary |-> JStr("Strong case"), conclusion |-> JStr("Proceed")])
      [] OTHER -> JSONDecodeError

\* texts the model can reply with
Replies ==
    {R_TEXT, R_PROSE, R_NULL, R_LIST, R_STR, R_INT, R_EMPTY, R_TL_OK, R_TL_NOEVENTS,
     R_TL_NOOVERVIEW, R_TL_ECHO, R_TL_NULLEVENTS, R_TL_LISTOVERVIEW, R_EV_OK, R_RP_OK}

\* str(e) of the exceptions the provider client raises
TransportErrors == {"Request timed out", "401 Unauthorized", "429 Too Many Requests"}

\* outcome of `await chain.arun(...)`: a reply text, or an exception
Reply(text) == [kind |-> "reply", text |-> text]
TransportError(msg) == [kind |-> "error", text |-> msg]
Outcomes == {Reply(r) : r \in Replies} \cup {TransportError(m) : m \in TransportErrors}

----------------------------------------------------------------------------
(* LLM orchestration stage: services/gemini_service.py, openai_service.py *)

\* generate_timeline without its `except json.JSONDecodeError` clause: the
\* decode error reaches the outer handler
GeminiGenerateTimeline_NoDecodeClause(outcome) ==
    IF outcome.kind = "error" \/ JsonLoads(outcome.text) = JSONDecodeError
    THEN JDict([title |-> JStr("Timeline of Contract Dispute"),
                overview |-> JStr("Error generating timeline: " \o outcome.text),
                events |-> JList(<<>>)])
    ELSE JsonLoads(outcome.text)

\* GeminiService.generate_timeline
GeminiGenerateTimeline(outcome) ==
    IF outcome.kind = "error"
    THEN JDict([title |-> JStr("Timeline of Contract Dispute"),
                overview |-> JStr("Error generating timeline: " \o outcome.text),
                events |-> JList(<<>>)])
    ELSE IF JsonLoads(outcome.text) = JSONDecodeError
    THEN JDict([title |-> JStr("Timeline of Contract Dispute"),
                overview |-> JStr("Error parsing structured data"),
                raw_response |-> JStr(outcome.text),
                events |-> JList(<<>>)])
    ELSE JsonLoads(outcome.text)

\* OpenAIService.analyze_evidence
OpenAIAnalyzeEvidence(outcome) ==
    IF outcome.kind = "error"
    THEN JDict([summary |-> JStr("Error analyzing evidence: " \o outcome.text),
                key_issues |-> JList(<<>>),
                recommended_evidence |-> JList(<<>>)])
    ELSE IF JsonLoads(outcome.text) = JSONDecodeError
    THEN JDict([summary |-> JStr("Error parsing structured data"),
                raw_response |-> JStr(outcome.text),
                key_issues |-> JList(<<>>),
                recommended_evidence |-> JList(<<>>)])
    ELSE JsonLoads(outcome.text)

\* generate_report whose outer handler catches json.JSONDecodeError only: a
\* provider exception reaches the caller
OpenAIGenerateReport_Reraise(outcome) ==
    IF outcome.kind = "error"
    THEN Raised(outcome.text)
    ELSE IF JsonLoads(outcome.text) = JSONDecodeError
    THEN JDict([title |-> JStr("Legal Report"),
                executive_summary |-> JStr("Error parsing structured data"),
                raw_response |-> JStr(outcome.text)])
    ELSE JsonLoads(outcome.text)

\* OpenAIService.generate_report
OpenAIGenerateReport(outcome) ==
    IF outcome.kind = "error"
    THEN JDict([title |-> JStr("Legal Report"),
                executive_summary |-> JStr("Error generating report: " \o outcome.text)])
    ELSE IF JsonLoads(outcome.text) = JSONDecodeError
    THEN JDict([title |-> JStr("Legal Report"),
                executive_summary |-> JStr("Error parsing structured data"),
                raw_response |-> JStr(outcome.text)])
    ELSE JsonLoads(outcome.text)

Services == {"generate_timeline", "analyze_evidence", "generate_report"}

Orchestrate(fn, outcome) ==
    CASE fn = "generate_timeline" -> GeminiGenerateTimeline(outcome)
      [] fn = "analyze_evidence" -> OpenAIAnalyzeEvidence(outcome)
      [] fn = "generate_report" -> OpenAIGenerateReport(outcome)

NoAggIn == [start_date |-> "", end_date |-> "", emails |-> <<>>, chats |-> <<>>, pdfs |-> <<>>]

NoCall == [state |-> "none", outcome |-> Reply(""), result |-> JNone]

\* One call of an orchestration function, up to its return.
Call(fn, outcome) ==
    /\ svc' = [svc EXCEPT ![fn] = [state |-> "returned", outcome |-> outcome,
                                   result |-> Orchestrate(fn, outcome)]]
    /\ UNCHANGED <<http_response, evVars, ingestVars, rawVars, aggVars, genVars>>

IdleLLM == svc = [fn \in Services |-> NoCall]

IdleAgg == agg_pc = "idle" /\ agg_in = NoAggIn /\ agg_events = <<>>

NoChatTask == [pc |-> "none", file_path |-> "", chat_messages |-> <<>>]

\* no ingestion task is running; the counters match the stored rows
IdleIngest ==
    /\ raw_next_id = [emails |-> Cardinality(emails), chat_logs |-> Cardinality(chats),
                      pdfs |-> Cardinality(pdfs)]
    /\ em_task = <<>> /\ pdf_task = <<>>
    /\ chat_file = <<>> /\ chat_task = NoChatTask

\* a request and the response it got: the route, the file name or the id
\* the request names, the status code, the "status" field of the body and
\* its "count" field (0 when the body has none)
Response(route, name, id, status, body) ==
    [route |-> route, name |-> name, id |-> id, status |-> status, body |-> body, count |-> 0]
NoResponse == Response("", "", 0, 0, "")

\* A handler whose only clause is `except Exception as e: raise
\* HTTPException(status_code=500, ...)`: HTTPException is an Exception, so
\* an HTTPException raised in the try body is answered with 500 as well.
ExceptException(status) == 500
\* the same handler when the `except HTTPException: raise` clause is missing
ExceptHTTPException_Wrapped(status) == 500
\* A handler with `except HTTPException: raise` in front of that clause
ExceptHTTPException(status) == status

\* nothing requested yet, no evidence analysed
IdleEvidence == http_response = NoResponse /\ evidence_table = {} /\ ev_task = <<>>

IdleGen ==
    /\ timelines = {} /\ timeline_events = {} /\ reports = {}
    /\ next_id = [timelines |-> 0, timeline_events |-> 0, reports |-> 0, evidence |-> 0]
    /\ deleted = [timelines |-> {}, reports |-> {}]
    /\ tl_req = <<>> /\ tl_task = <<>> /\ rp_req = <<>> /\ rp_task = <<>>

InitLLM ==
    /\ emails = {} /\ chats = {} /\ pdfs = {}
    /\ IdleAgg
    /\ IdleLLM
    /\ IdleGen
    /\ IdleEvidence
    /\ IdleIngest

NextLLM == \E fn \in Services, outcome \in Outcomes : Call(fn, outcome)

SpecLLM == InitLLM /\ [][NextLLM]_vars

----------------------------------------------------------------------------
(* Claims about the LLM orchestration stage *)

\* the field that carries the summary / overview text of each schema
SummaryField(fn) ==
    CASE fn = "generate_timeline" -> "overview"
      [] fn = "analyze_evidence" -> "summary"
      [] fn = "generate_report" -> "executive_summary"

ErrorPrefix(fn) ==
    CASE fn = "generate_timeline" -> "Error generating timeline: "
      [] fn = "analyze_evidence" -> "Error analyzing evidence: "
      [] fn = "generate_report" -> "Error generating report: "

NonJsonReturned(fn) ==
    /\ svc[fn].state = "returned"
    /\ svc[fn].outcome.kind = "reply"
    /\ JsonLoads(svc[fn].outcome.text) = JSONDecodeError

\* C2: for a reply that is not valid JSON each orchestration call returns,
\* without raising, a dict that holds the reply text under raw_response, the
\* placeholder text in its summary field and empty lists in its list fields;
\* analyze_evidence on "I cannot comply" returns recommended_evidence = [] and
\* raw_response = "I cannot comply".
C2_NonJsonDegrades ==
    /\ \A fn \in Services :
          NonJsonReturned(fn) =>
              /\ svc[fn].result.t = "dict"
              /\ Get(svc[fn].result, "raw_response", JNone) = JStr(svc[fn].outcome.text)
              /\ Get(svc[fn].result, SummaryField(fn), JNone) = JStr("Error parsing structured data")
              /\ \A k \in DOMAIN svc[fn].result.d \ {"raw_response", SummaryField(fn), "title"} :
                    svc[fn].result.d[k] = JList(<<>>)
    /\ NonJsonReturned("generate_timeline") =>
          Get(svc["generate_timeline"].result, "events", JNone) = JList(<<>>)
    /\ (NonJsonReturned("analyze_evidence") /\ svc["analyze_evidence"].outcome.text = "I cannot comply") =>
          /\ Get(svc["analyze_evidence"].result, "recommended_evidence", JNone) = JList(<<>>)
          /\ Get(svc["analyze_evidence"].result, "raw_response", JNone) = JStr("I cannot comply")

\* C2 witness: analyze_evidence has returned for the reply "I cannot comply"
\* and generate_timeline for another text that is not JSON.
C2_Witness ==
    /\ NonJsonReturned("analyze_evidence")
    /\ svc["analyze_evidence"].outcome.text = "I cannot comply"
    /\ HasKey(svc["analyze_evidence"].result, "raw_response")
    /\ NonJsonReturned("generate_timeline")
    /\ svc["generate_timeline"].outcome.text = R_PROSE

\* C3: for every reply and every transport outcome the value returned by the
\* orchestration stage is a mapping, never null or another JSON type.
C3_AlwaysMapping ==
    \A fn \in Services : svc[fn].state = "returned" => svc[fn].result.t = "dict"

\* C4: on a transport error each orchestration call returns (never raises) a
\* dict with the fields of its non-JSON result other than raw_response, the
\* same values in them, and the error message in the summary field.
C4_TransportErrorDegrades ==
    \A fn \in Services :
        (svc[fn].state = "returned" /\ svc[fn].outcome.kind = "error") =>
            LET degraded == Orchestrate(fn, Reply(R_TEXT))
                result == svc[fn].result
            IN  /\ result.t = "dict"
                /\ DOMAIN result.d = DOMAIN degraded.d \ {"raw_response"}
                /\ \A k \in DOMAIN result.d \ {SummaryField(fn)} : result.d[k] = degraded.d[k]
                /\ Get(result, SummaryField(fn), JNone) = JStr(ErrorPrefix(fn) \o svc[fn].outcome.text)

\* C4 witness: all three functions have returned from a provider failure.
C4_Witness ==
    \A fn \in Services :
        /\ svc[fn].state = "returned"
        /\ svc[fn].outcome.kind = "error"
        /\ svc[fn].result.t = "dict"

----------------------------------------------------------------------------
(* Bounds and input domains of the aggregation runs *)

\* rows in the three raw tables together
MaxRows == 3

\* datetimes stored in the raw tables of an aggregation run
AggDates ==
    { <<2024, 1, 1, 0, 0, 0, 0>>,
      <<2024, 1, 2, 0, 0, 0, 0>>,
      <<2024, 1, 10, 9, 15, 0, 500000>> }

\* values of the query parameters start_date / end_date ("" = not given)
DateParams == {"", "2024-01-02", "02/01/2024"}

MessageIdOf(i) == "m" \o DigitChar[i + 1]
PathOf(dir, i) == dir \o DigitChar[i + 1]

EmailRow(i, d) == [id |-> i, email_id |-> MessageIdOf(i), date |-> d, body |-> "body"]
ChatRow(i, d) == [id |-> i, date_time |-> d, sender |-> "Alice", message |-> "Hello",
                  file_path |-> "chats/a.txt"]
PdfRow(i) == [id |-> i, file_name |-> PathOf("inv", i), extracted_text |-> "text",
              file_path |-> PathOf("pdfs/inv", i)]

EmailTables ==
    UNION {{ {EmailRow(i, f[i]) : i \in 1..n} : f \in [1..n -> AggDates \cup {NULL}] } : n \in 0..MaxRows}
ChatTables ==
    UNION {{ {ChatRow(i, f[i]) : i \in 1..n} : f \in [1..n -> AggDates \cup {NULL}] } : n \in 0..MaxRows}
PdfTables == {{PdfRow(i) : i \in 1..n} : n \in 0..MaxRows}

----------------------------------------------------------------------------
(* Aggregation stage: routes/timeline.py, generate_timeline_task *)

\* datetime.strptime(s, "%Y-%m-%d") on the parameter values; ValueError is
\* caught and leaves the bound None
StrptimeYmd(s) ==
    CASE s = "2024-01-02" -> <<2024, 1, 2, 0, 0, 0, 0>>
      [] s = "2024-1-2" -> <<2024, 1, 2, 0, 0, 0, 0>>
      [] OTHER -> NULL

start_date_obj(start_date) == IF start_date # "" THEN StrptimeYmd(start_date) ELSE NULL
\* an end bound that is parsed and never used in a filter
end_date_obj_Unused(end_date) == NULL
end_date_obj(end_date) == IF end_date # "" THEN StrptimeYmd(end_date) ELSE NULL

\* SQL comparison: a NULL column satisfies neither >= nor <=
email_query(start_date, end_date) ==
    {e \in emails :
        /\ (start_date_obj(start_date) # NULL =>
               e.date # NULL /\ DtLeq(start_date_obj(start_date), e.date))
        /\ (end_date_obj(end_date) # NULL =>
               e.date # NULL /\ DtLeq(e.date, end_date_obj(end_date)))}

chat_query(start_date, end_date) ==
    {c \in chats :
        /\ (start_date_obj(start_date) # NULL =>
               c.date_time # NULL /\ DtLeq(start_date_obj(start_date), c.date_time))
        /\ (end_date_obj(end_date) # NULL =>
               c.date_time # NULL /\ DtLeq(c.date_time, end_date_obj(end_date)))}

pdf_query == pdfs

EmailItem(email) ==
    [date |-> IF email.date # NULL THEN IsoFormat(email.date) ELSE NULL,
     source_type |-> "email", source_id |-> email.id]
ChatItem(chat) ==
    [date |-> IF chat.date_time # NULL THEN IsoFormat(chat.date_time) ELSE NULL,
     source_type |-> "chat", source_id |-> chat.id]
PdfItem(pdf) ==
    [date |-> NULL, source_type |-> "pdf", source_id |-> pdf.id]

\* the three `for ...: events.append({...})` loops
FormatEvents(es, cs, ps) ==
    [i \in 1..Len(es) |-> EmailItem(es[i])]
      \o [i \in 1..Len(cs) |-> ChatItem(cs[i])]
      \o [i \in 1..Len(ps) |-> PdfItem(ps[i])]

RECURSIVE InsertByDate_BeforeEqual(_, _)
\* an insertion that puts e in front of the elements with an equal key
InsertByDate_BeforeEqual(sorted, e) ==
    IF sorted = <<>> THEN <<e>>
    ELSE IF ~StrLess(Head(sorted).date, e.date) THEN <<e>> \o sorted
    ELSE <<Head(sorted)>> \o InsertByDate_BeforeEqual(Tail(sorted), e)

RECURSIVE InsertByDate(_, _)
\* position of e in a sorted list: after every element whose key is <= its key
InsertByDate(sorted, e) ==
    IF sorted = <<>> THEN <<e>>
    ELSE IF StrLess(e.date, Head(sorted).date) THEN <<e>> \o sorted
    ELSE <<Head(sorted)>> \o InsertByDate(Tail(sorted), e)

RECURSIVE SortByDate(_)
\* list.sort(key=lambda x: x["date"]): stable, ascending by the str key
SortByDate(seq) ==
    IF seq = <<>> THEN <<>>
    ELSE InsertByDate(SortByDate(SubSeq(seq, 1, Len(seq) - 1)), seq[Len(seq)])

dated_events(events) == SelectSeq2(events, {e \in Range(events) : e.date # NULL})
undated_events(events) == SelectSeq2(events, {e \in Range(events) : e.date = NULL})

AggregateEvents(es, cs, ps) ==
    LET events == FormatEvents(es, cs, ps)
    IN  SortByDate(dated_events(events)) \o undated_events(events)

\* One aggregation run: the three SELECTs (any result order) and the merge.
Aggregate(start_date, end_date, es, cs, ps) ==
    /\ agg_pc = "idle"
    /\ es \in Orderings(email_query(start_date, end_date))
    /\ cs \in Orderings(chat_query(start_date, end_date))
    /\ ps \in Orderings(pdf_query)
    /\ agg_in' = [start_date |-> start_date, end_date |-> end_date,
                  emails |-> es, chats |-> cs, pdfs |-> ps]
    /\ agg_events' = AggregateEvents(es, cs, ps)
    /\ agg_pc' = "done"
    /\ UNCHANGED <<http_response, evVars, ingestVars, rawVars, llmVars, genVars>>

InitAgg ==
    /\ emails \in EmailTables
    /\ chats \in ChatTables
    /\ pdfs \in PdfTables
    /\ Cardinality(emails) + Cardinality(chats) + Cardinality(pdfs) <= MaxRows
    /\ agg_pc = "idle"
    /\ agg_in = NoAggIn
    /\ agg_events = <<>>
    /\ IdleLLM
    /\ IdleGen
    /\ IdleEvidence
    /\ IdleIngest

NextAgg ==
    \E start_date, end_date \in DateParams :
        \E es \in Orderings(email_query(start_date, end_date)),
           cs \in Orderings(chat_query(start_date, end_date)),
           ps \in Orderings(pdf_query) :
            Aggregate(start_date, end_date, es, cs, ps)

SpecAgg == InitAgg /\ [][NextAgg]_vars

----------------------------------------------------------------------------
(* Claims about the aggregation stage *)

\* timestamp of the stored row an item was projected from
ItemTimestamp(item) ==
    IF item.source_type = "email"
    THEN (CHOOSE e \in emails : e.id = item.source_id).date
    ELSE IF item.source_type = "chat"
    THEN (CHOOSE c \in chats : c.id = item.source_id).date_time
    ELSE NULL

\* C1: the item list handed to the model is a dated prefix sorted ascending by
\* timestamp followed by the undated items, every PDF item comes after every
\* dated item, and 1 Email (2024-01-01), 1 ChatLog (2024-01-02), 1 PDF give
\* the order [email, chat, pdf].
C1_DatedPrefixSorted ==
    agg_pc = "done" =>
        /\ \E k \in 0..Len(agg_events) :
              /\ \A i \in 1..Len(agg_events) : (agg_events[i].date # NULL) <=> (i <= k)
              /\ \A i, j \in 1..k :
                    i < j => DtLeq(ItemTimestamp(agg_events[i]), ItemTimestamp(agg_events[j]))
        /\ \A i, j \in 1..Len(agg_events) :
              (agg_events[i].source_type = "pdf" /\ agg_events[j].date # NULL) => j < i
        /\ ( /\ agg_in.emails = <<EmailRow(1, <<2024, 1, 1, 0, 0, 0, 0>>)>>
             /\ agg_in.chats = <<ChatRow(1, <<2024, 1, 2, 0, 0, 0, 0>>)>>
             /\ agg_in.pdfs = <<PdfRow(1)>> )
           => [i \in 1..Len(agg_events) |-> agg_events[i].source_type] = <<"email", "chat", "pdf">>

\* C1 witness: a run over a dated email, a dated chat and a PDF in which the
\* sort had to move the chat item in front of the email item.
C1_Witness ==
    /\ agg_pc = "done"
    /\ Len(agg_in.pdfs) = 1
    /\ Len(agg_events) = 3
    /\ agg_events[1].source_type = "chat"
    /\ agg_events[2].source_type = "email"
    /\ TupleLess(ItemTimestamp(agg_events[1]), ItemTimestamp(agg_events[2]))
    /\ agg_events[3].source_type = "pdf"

----------------------------------------------------------------------------
(* Timeline generation: routes/timeline.py *)

MaxTimelines == 2

\* a NULL in a text column
SQL_NULL == "<NULL>"

Exists(table, id) == \E row \in table : row.id = id
RowOf(table, id) == CHOOSE row \in table : row.id = id

\* Truth value of a JSON value in an `if`
Truthy(v) ==
    CASE v.t = "str" -> v.s # ""
      [] v.t = "int" -> v.n # 0
      [] v.t = "list" -> v.l # <<>>
      [] v.t = "dict" -> DOMAIN v.d # {}
      [] OTHER -> FALSE

\* sqlite3 accepts None, int and str as the parameter of a text column and
\* raises on a list or dict
Bindable(v) == v.t \in {"str", "int", "NoneType"}

IntText(n) == IF n < 10 THEN DigitChar[n + 1] ELSE DigitChar[(n \div 10) + 1] \o DigitChar[(n % 10) + 1]

ColumnText(v) ==
    CASE v.t = "str" -> v.s
      [] v.t = "int" -> IntText(v.n)
      [] OTHER -> SQL_NULL

\* str(e) of the exceptions raised on a result of the wrong type
AttributeErrorText(v) == "'" \o v.t \o "' object has no attribute 'get'"
NotIterableText(v) == "'" \o v.t \o "' object is not iterable"
BindErrorText == "Error binding parameter: type 'list' is not supported"

\* datetime.fromisoformat(s) on the date texts of the replies; None stands
\* for ValueError
FromIsoFormat(s) ==
    CASE s = "2024-01-02" -> <<2024, 1, 2, 0, 0, 0, 0>>
      [] OTHER -> NULL

\* lines 163-171: ISO-8601 first, then "%Y-%m-%d", else no date
EventDate(event_data) ==
    IF HasKey(event_data, "date") /\ Truthy(event_data.d.date) /\ event_data.d.date.t = "str"
    THEN IF FromIsoFormat(event_data.d.date.s) # NULL
         THEN FromIsoFormat(event_data.d.date.s)
         ELSE StrptimeYmd(event_data.d.date.s)
    ELSE NULL

\* str.split(":") on the source texts of the replies
SplitColon(s) ==
    CASE s = "email:1" -> <<"email", "1">>
      [] s = "chat:2" -> <<"chat", "2">>
      [] s = "pdf:7" -> <<"pdf", "7">>
      [] s = "email:12:34" -> <<"email", "12", "34">>
      [] s = "email:abc" -> <<"email", "abc">>
      [] s = "email:²" -> <<"email", "²">>
      [] OTHER -> <<s>>

\* str.isdigit() and int() on the parts SplitColon returns: isdigit() is
\* true of the superscript two as well, which int() rejects with ValueError
IsDigit(s) == s \in {"1", "2", "7", "12", "34", "²"}
IntRaises(s) == s \notin {"1", "2", "7", "12", "34"}
ParseInt(s) ==
    CASE s = "1" -> 1 [] s = "2" -> 2 [] s = "7" -> 7 [] s = "12" -> 12 [] s = "34" -> 34

\* an event whose date does not parse is rejected by the per-event handler
EventRaises_OnBadDate(event_data) ==
    \/ event_data.t # "dict"
    \/ Get(event_data, "source", JStr("unknown")).t \notin {"str", "list", "dict"}
    \/ EventDate(event_data) = NULL
\* lines 161-184: does the body of the per-event `try` raise?
EventRaises(event_data) ==
    \/ event_data.t # "dict"
    \/ Get(event_data, "source", JStr("unknown")).t \notin {"str", "list", "dict"}
    \/ LET source == Get(event_data, "source", JStr("unknown"))
           parts == IF source.t = "str" THEN SplitColon(source.s) ELSE <<"">>
       IN  /\ source.t = "str" /\ Len(parts) > 1
           /\ IsDigit(parts[Len(parts)])
           /\ IntRaises(parts[Len(parts)])

\* lines 174-181: the TimelineEvent built from one event object; title and
\* description stay JSON values until the INSERT binds them
NewEvent(timeline_id, event_data) ==
    LET source == Get(event_data, "source", JStr("unknown"))
        parts == IF source.t = "str" THEN SplitColon(source.s) ELSE <<"">>
        colon == source.t = "str" /\ Len(parts) > 1
    IN  [timeline_id |-> timeline_id,
         date |-> EventDate(event_data),
         title |-> Get(event_data, "title", JStr("Untitled Event")),
         description |-> Get(event_data, "description", JStr("")),
         source_type |-> IF colon THEN parts[1] ELSE "unknown",
         source_id |-> IF colon /\ IsDigit(parts[Len(parts)]) THEN ParseInt(parts[Len(parts)]) ELSE 0]

RECURSIVE NewEvents(_, _)
\* the `for event_data in timeline_data["events"]` loop over a list
NewEvents(timeline_id, l) ==
    IF l = <<>> THEN <<>>
    ELSE IF EventRaises(Head(l)) THEN NewEvents(timeline_id, Tail(l))
    ELSE <<NewEvent(timeline_id, Head(l))>> \o NewEvents(timeline_id, Tail(l))

NoRequest == [pc |-> "committed", start_date |-> "", end_date |-> "", response |-> "none"]
NoTimelineTask ==
    [pc |-> "unscheduled", events |-> <<>>, timeline_data |-> JNone, new_events |-> <<>>,
     error |-> "", llm_calls |-> 0]

TimelineIds == 1..next_id.timelines

\* generate_timeline that calls background_tasks.add_task before it has
\* finished with the row: the task may start while the handler still runs
GenerateTimelineCommit_ScheduleEarly(start_date, end_date, max) ==
    /\ next_id.timelines < max
    /\ timelines' = timelines \cup
          {[id |-> next_id.timelines + 1, title |-> "Timeline of Contract Dispute",
            description |-> PLACEHOLDER_TIMELINE]}
    /\ next_id' = [next_id EXCEPT !.timelines = @ + 1]
    /\ tl_req' = Append(tl_req, [NoRequest EXCEPT !.start_date = start_date, !.end_date = end_date])
    /\ tl_task' = Append(tl_task, [NoTimelineTask EXCEPT !.pc = "scheduled"])
    /\ UNCHANGED <<http_response, evVars, ingestVars, rawVars, aggVars, llmVars, timeline_events, deleted, rpVars>>

\* generate_timeline up to the end of `await db.commit()`
GenerateTimelineCommit(start_date, end_date, max) ==
    /\ next_id.timelines < max
    /\ timelines' = timelines \cup
          {[id |-> next_id.timelines + 1, title |-> "Timeline of Contract Dispute",
            description |-> PLACEHOLDER_TIMELINE]}
    /\ next_id' = [next_id EXCEPT !.timelines = @ + 1]
    /\ tl_req' = Append(tl_req, [NoRequest EXCEPT !.start_date = start_date, !.end_date = end_date])
    /\ tl_task' = Append(tl_task, NoTimelineTask)
    /\ UNCHANGED <<http_response, evVars, ingestVars, rawVars, aggVars, llmVars, timeline_events, deleted, rpVars>>

\* generate_timeline from `await db.refresh(new_timeline)` to the response;
\* refresh raises when the row is gone and the handler answers 500
GenerateTimelineReturn(id) ==
    /\ id \in TimelineIds
    /\ tl_req[id].pc = "committed"
    /\ IF Exists(timelines, id)
       THEN /\ tl_task' = [tl_task EXCEPT ![id].pc = "scheduled"]
            /\ tl_req' = [tl_req EXCEPT ![id].pc = "returned", ![id].response = "processing"]
       ELSE /\ tl_req' = [tl_req EXCEPT ![id].pc = "returned", ![id].response = "500"]
            /\ UNCHANGED tl_task
    /\ UNCHANGED <<http_response, evVars, ingestVars, rawVars, aggVars, llmVars, timelines, timeline_events, next_id, deleted, rpVars>>

\* generate_timeline_task, lines 62-144: the three SELECTs and the merge
TimelineTaskFetch(id, es, cs, ps) ==
    /\ id \in TimelineIds
    /\ tl_task[id].pc = "scheduled"
    /\ es \in Orderings(email_query(tl_req[id].start_date, tl_req[id].end_date))
    /\ cs \in Orderings(chat_query(tl_req[id].start_date, tl_req[id].end_date))
    /\ ps \in Orderings(pdf_query)
    /\ tl_task' = [tl_task EXCEPT ![id].pc = "llm", ![id].events = AggregateEvents(es, cs, ps)]
    /\ UNCHANGED <<http_response, evVars, ingestVars, rawVars, aggVars, llmVars, timelines, timeline_events, next_id, deleted, tl_req, rpVars>>

\* line 147: await gemini_service.generate_timeline(events)
TimelineTaskLLM(id, outcome) ==
    /\ id \in TimelineIds
    /\ tl_task[id].pc = "llm"
    /\ tl_task' = [tl_task EXCEPT ![id].pc = "overview",
                                  ![id].timeline_data = GeminiGenerateTimeline(outcome),
                                  ![id].llm_calls = @ + 1]
    /\ UNCHANGED <<http_response, evVars, ingestVars, rawVars, aggVars, llmVars, timelines, timeline_events, next_id, deleted, tl_req, rpVars>>

\* an exception in one task that takes every task to the handler
RaiseInTimelineTask_AllTasks(id, msg) ==
    tl_task' = [i \in DOMAIN tl_task |->
                   [tl_task[i] EXCEPT !.pc = "except", !.error = msg, !.new_events = <<>>]]
\* an exception leaves the task body for the handler at line 189
RaiseInTimelineTask(id, msg) ==
    tl_task' = [tl_task EXCEPT ![id].pc = "except", ![id].error = msg, ![id].new_events = <<>>]

\* a task that goes on to the events without writing the overview
TimelineTaskOverview_Skip(id) ==
    /\ id \in TimelineIds
    /\ tl_task[id].pc = "overview"
    /\ tl_task' = [tl_task EXCEPT ![id].pc = "events"]
    /\ UNCHANGED <<http_response, evVars, ingestVars, rawVars, aggVars, llmVars, timelines, timeline_events, next_id, deleted, tl_req, rpVars>>
\* lines 150-154: first session, description := overview
TimelineTaskOverview(id) ==
    /\ id \in TimelineIds
    /\ tl_task[id].pc = "overview"
    /\ LET timeline_data == tl_task[id].timeline_data
           overview == Get(timeline_data, "overview", JStr("Timeline generated successfully."))
       IN  IF ~Exists(timelines, id)
           THEN /\ tl_task' = [tl_task EXCEPT ![id].pc = "events"]
                /\ UNCHANGED timelines
           ELSE IF timeline_data.t # "dict"
           THEN /\ RaiseInTimelineTask(id, AttributeErrorText(timeline_data))
                /\ UNCHANGED timelines
           ELSE IF ~Bindable(overview)
           THEN /\ RaiseInTimelineTask(id, BindErrorText)
                /\ UNCHANGED timelines
           ELSE /\ timelines' = (timelines \ {RowOf(timelines, id)}) \cup
                        {[RowOf(timelines, id) EXCEPT !.description = ColumnText(overview)]}
                /\ tl_task' = [tl_task EXCEPT ![id].pc = "events"]
    /\ UNCHANGED <<http_response, evVars, ingestVars, rawVars, aggVars, llmVars, timeline_events, next_id, deleted, tl_req, rpVars>>

\* lines 157-184: second session, session.get and the loop that builds the
\* TimelineEvent objects
TimelineTaskEvents(id) ==
    /\ id \in TimelineIds
    /\ tl_task[id].pc = "events"
    /\ LET timeline_data == tl_task[id].timeline_data
       IN  IF ~Exists(timelines, id)
           THEN tl_task' = [tl_task EXCEPT ![id].pc = "done"]
           ELSE IF timeline_data.t \in {"NoneType", "int"}
           THEN RaiseInTimelineTask(id, NotIterableText(timeline_data))
           ELSE IF ~HasKey(timeline_data, "events")
           THEN tl_task' = [tl_task EXCEPT ![id].pc = "done"]
           ELSE IF timeline_data.d.events.t \in {"NoneType", "int"}
           THEN RaiseInTimelineTask(id, NotIterableText(timeline_data.d.events))
           ELSE tl_task' = [tl_task EXCEPT
                    ![id].pc = "commit",
                    ![id].new_events =
                        IF timeline_data.d.events.t = "list"
                        THEN NewEvents(id, timeline_data.d.events.l)
                        ELSE <<>>]
    /\ UNCHANGED <<http_response, evVars, ingestVars, rawVars, aggVars, llmVars, timelines, timeline_events, next_id, deleted, tl_req, rpVars>>

\* line 186: await session.commit() inserts every added TimelineEvent in one
\* transaction (SQLite does not enforce the foreign key)
TimelineTaskEventsCommit(id) ==
    /\ id \in TimelineIds
    /\ tl_task[id].pc = "commit"
    /\ LET new == tl_task[id].new_events
       IN  IF \E i \in 1..Len(new) : ~Bindable(new[i].title) \/ ~Bindable(new[i].description)
           THEN /\ RaiseInTimelineTask(id, BindErrorText)
                /\ UNCHANGED <<timeline_events, next_id>>
           ELSE /\ timeline_events' = timeline_events \cup
                        {[id |-> next_id.timeline_events + i,
                          timeline_id |-> new[i].timeline_id,
                          date |-> new[i].date,
                          title |-> ColumnText(new[i].title),
                          description |-> ColumnText(new[i].description),
                          source_type |-> new[i].source_type,
                          source_id |-> new[i].source_id] : i \in 1..Len(new)}
                /\ next_id' = [next_id EXCEPT !.timeline_events = @ + Len(new)]
                /\ tl_task' = [tl_task EXCEPT ![id].pc = "done", ![id].new_events = <<>>]
    /\ UNCHANGED <<http_response, evVars, ingestVars, rawVars, aggVars, llmVars, timelines, deleted, tl_req, rpVars>>

\* a handler that only logs the exception
TimelineTaskExcept_NoWrite(id) ==
    /\ id \in TimelineIds
    /\ tl_task[id].pc = "except"
    /\ tl_task' = [tl_task EXCEPT ![id].pc = "done"]
    /\ UNCHANGED <<http_response, evVars, ingestVars, rawVars, aggVars, llmVars, timelines, timeline_events, next_id, deleted, tl_req, rpVars>>

\* lines 189-196: the handler at the task's outermost boundary
TimelineTaskExcept(id) ==
    /\ id \in TimelineIds
    /\ tl_task[id].pc = "except"
    /\ IF Exists(timelines, id)
       THEN timelines' = (timelines \ {RowOf(timelines, id)}) \cup
                {[RowOf(timelines, id) EXCEPT
                    !.description = "Error generating timeline: " \o tl_task[id].error]}
       ELSE UNCHANGED timelines
    /\ tl_task' = [tl_task EXCEPT ![id].pc = "done"]
    /\ UNCHANGED <<http_response, evVars, ingestVars, rawVars, aggVars, llmVars, timeline_events, next_id, deleted, tl_req, rpVars>>

\* db.delete(timeline) and the commit: the row and, by the ORM cascade, the
\* events it owns at that moment
DeleteTimelineRows(id) ==
    /\ timelines' = timelines \ {RowOf(timelines, id)}
    /\ timeline_events' = {e \in timeline_events : e.timeline_id # id}
    /\ deleted' = [deleted EXCEPT !.timelines = @ \cup {id}]

\* delete_timeline on an existing id
DeleteTimeline(id) ==
    /\ Exists(timelines, id)
    /\ DeleteTimelineRows(id)
    /\ UNCHANGED <<http_response, evVars, ingestVars, rawVars, aggVars, llmVars, next_id, tl_req, tl_task, rpVars>>

\* outcomes of the provider call in the generation tasks
TimelineOutcomes ==
    {Reply(R_TL_OK), Reply(R_TL_ECHO), Reply(R_TL_NULLEVENTS), Reply(R_TL_LISTOVERVIEW),
     Reply(R_NULL), Reply(R_TEXT), TransportError("Request timed out")}

InitGen ==
    /\ emails = {EmailRow(1, <<2024, 1, 1, 0, 0, 0, 0>>)}
    /\ chats = {ChatRow(1, <<2024, 1, 2, 0, 0, 0, 0>>)}
    /\ pdfs = {PdfRow(1)}
    /\ IdleAgg
    /\ IdleLLM
    /\ IdleGen
    /\ IdleEvidence
    /\ IdleIngest

NextTimeline(max) ==
    \/ GenerateTimelineCommit("", "", max)
    \/ \E id \in TimelineIds : GenerateTimelineReturn(id)
    \/ \E id \in TimelineIds :
          \E es \in Orderings(emails), cs \in Orderings(chats), ps \in Orderings(pdfs) :
              TimelineTaskFetch(id, es, cs, ps)
    \/ \E id \in TimelineIds, outcome \in TimelineOutcomes : TimelineTaskLLM(id, outcome)
    \/ \E id \in TimelineIds : TimelineTaskOverview(id)
    \/ \E id \in TimelineIds : TimelineTaskEvents(id)
    \/ \E id \in TimelineIds : TimelineTaskEventsCommit(id)
    \/ \E id \in TimelineIds : TimelineTaskExcept(id)
    \/ \E id \in TimelineIds : DeleteTimeline(id)

SpecTimeline == InitGen /\ [][NextTimeline(MaxTimelines)]_vars

----------------------------------------------------------------------------
(* Report generation: routes/report.py *)

\* generate requests (timelines and reports together) in the runs that also
\* generate reports
MaxRequests == 2

\* f"{v}" of a JSON value
FStr(v) ==
    CASE v.t = "str" -> v.s
      [] v.t = "int" -> IntText(v.n)
      [] v.t = "NoneType" -> "None"
      [] v.t = "list" -> IF v.l = <<>> THEN "[]" ELSE "[...]"
      [] v.t = "dict" -> IF DOMAIN v.d = {} THEN "{}" ELSE "{...}"

\* `for x in v` raises TypeError unless v is a list, str or dict
Iterable(v) == v.t \in {"list", "str", "dict"}

\* the elements a `for` loop over v visits (a str or dict yields str items,
\* on which .get raises AttributeError)
RECURSIVE StrItems(_)
StrItems(n) == IF n = 0 THEN <<>> ELSE StrItems(n - 1) \o <<JStr("?")>>
Items(v) ==
    CASE v.t = "list" -> v.l
      [] v.t = "dict" -> StrItems(Cardinality(DOMAIN v.d))
      [] v.t = "str" -> IF v.s = "" THEN <<>> ELSE <<JStr("?")>>
      [] OTHER -> <<>>

RECURSIVE Join(_)
\* "".join(content)
Join(content) == IF content = <<>> THEN "" ELSE Head(content) \o Join(Tail(content))

\* lines 126-130
TimelineEntry(event) ==
    "### " \o FStr(Get(event, "date", JStr("Unknown date"))) \o ": "
      \o FStr(Get(event, "event", JStr("Untitled event"))) \o "\n\n"
      \o FStr(Get(event, "significance", JStr(""))) \o "\n\n"

\* lines 134-143
IssueEntry(issue) ==
    "### " \o FStr(Get(issue, "issue", JStr("Untitled issue"))) \o "\n\n"
      \o FStr(Get(issue, "analysis", JStr(""))) \o "\n\n"
      \o (IF HasKey(issue, "supporting_evidence")
          THEN "**Supporting Evidence:**\n\n"
                 \o Join([i \in 1..Len(Items(issue.d.supporting_evidence)) |->
                            "- Evidence ID: " \o FStr(Items(issue.d.supporting_evidence)[i]) \o "\n"])
                 \o "\n"
          ELSE "")

\* lines 162-167
AppendixEntry(evidence) ==
    "### Evidence " \o FStr(Get(evidence, "id", JStr("Unknown"))) \o " ("
      \o FStr(Get(evidence, "type", JStr("Unknown"))) \o ")\n\n**Description:** "
      \o FStr(Get(evidence, "description", JStr(""))) \o "\n\n**Relevance:** "
      \o FStr(Get(evidence, "relevance", JStr(""))) \o "\n\n"

\* lines 113-167 on a dict: the sections in emission order
RenderSections(report_data) ==
    LET rd == report_data.d
        has(k) == k \in DOMAIN rd
    IN  << IF has("title") THEN "# " \o FStr(rd["title"]) \o "\n\n" ELSE "",
           IF has("executive_summary")
             THEN "## Executive Summary\n\n" \o FStr(rd["executive_summary"]) \o "\n\n" ELSE "",
           IF has("background")
             THEN "## Background and Context\n\n" \o FStr(rd["background"]) \o "\n\n" ELSE "",
           IF has("timeline")
             THEN "## Timeline of Key Events\n\n"
                    \o Join([i \in 1..Len(Items(rd["timeline"])) |-> TimelineEntry(Items(rd["timeline"])[i])])
             ELSE "",
           IF has("key_issues")
             THEN "## Analysis of Key Issues\n\n"
                    \o Join([i \in 1..Len(Items(rd["key_issues"])) |-> IssueEntry(Items(rd["key_issues"])[i])])
             ELSE "",
           IF has("evidence_evaluation")
             THEN "## Evaluation of Evidence\n\n" \o FStr(rd["evidence_evaluation"]) \o "\n\n" ELSE "",
           IF has("legal_implications")
             THEN "## Legal Implications\n\n" \o FStr(rd["legal_implications"]) \o "\n\n" ELSE "",
           IF has("recommendations")
             THEN "## Recommendations\n\n"
                    \o Join([i \in 1..Len(Items(rd["recommendations"])) |->
                               "- " \o FStr(Items(rd["recommendations"])[i]) \o "\n"])
                    \o "\n"
             ELSE "",
           IF has("conclusion") THEN "## Conclusion\n\n" \o FStr(rd["conclusion"]) \o "\n\n" ELSE "",
           IF has("appendix") /\ HasKey(rd["appendix"], "recommended_evidence_details")
             THEN "## Appendix: Recommended Evidence Details\n\n"
                    \o Join([i \in 1..Len(Items(rd["appendix"].d.recommended_evidence_details)) |->
                               AppendixEntry(Items(rd["appendix"].d.recommended_evidence_details)[i])])
             ELSE "" >>

\* a loop over entries that calls .get on each of them
EntriesRaise(v) == ~Iterable(v) \/ \E i \in 1..Len(Items(v)) : Items(v)[i].t # "dict"

\* a rendering that reads report_data["title"] without the `in` test
RenderRaises_TitleRequired(report_data) ==
    report_data.t # "dict" \/ ~HasKey(report_data, "title")

\* lines 113-167: does building the content raise?
RenderRaises(report_data) ==
    \/ report_data.t \in {"NoneType", "int"}
    \/ /\ report_data.t = "dict"
       /\ \/ HasKey(report_data, "timeline") /\ EntriesRaise(report_data.d.timeline)
          \/ /\ HasKey(report_data, "key_issues")
             /\ \/ EntriesRaise(report_data.d.key_issues)
                \/ \E i \in 1..Len(Items(report_data.d.key_issues)) :
                      /\ HasKey(Items(report_data.d.key_issues)[i], "supporting_evidence")
                      /\ ~Iterable(Items(report_data.d.key_issues)[i].d.supporting_evidence)
          \/ HasKey(report_data, "recommendations") /\ ~Iterable(report_data.d.recommendations)
          \/ /\ HasKey(report_data, "appendix")
             /\ \/ report_data.d.appendix.t \in {"NoneType", "int"}
                \/ /\ HasKey(report_data.d.appendix, "recommended_evidence_details")
                   /\ EntriesRaise(report_data.d.appendix.d.recommended_evidence_details)

\* "".join(content); on a list or str reply no `in` test succeeds
RenderContent(report_data) ==
    IF report_data.t = "dict" THEN Join(RenderSections(report_data)) ELSE ""

RenderErrorText(report_data) ==
    IF report_data.t \in {"NoneType", "int"}
    THEN "argument of type '" \o report_data.t \o "' is not iterable"
    ELSE "malformed section in report data"

NoReportRequest == [pc |-> "committed", timeline_id |-> 0, response |-> "none"]
NoReportTask ==
    [pc |-> "unscheduled", timeline_data |-> [title |-> "", overview |-> "", events |-> <<>>],
     report_data |-> JNone, error |-> "", llm_calls |-> 0]

ReportIds == 1..next_id.reports

\* generate_report that answers 409 while the timeline is not populated
GenerateReportCommit_PopulatedOnly(timeline_id) ==
    /\ IF ~Exists(timelines, timeline_id)
       THEN /\ http_response' =
                  Response("generate_report", "", timeline_id, ExceptHTTPException(404), "not found")
            /\ UNCHANGED <<reports, next_id, rp_req, rp_task>>
       ELSE IF RowOf(timelines, timeline_id).description = PLACEHOLDER_TIMELINE
       THEN /\ http_response' =
                  Response("generate_report", "", timeline_id, ExceptHTTPException(409), "not ready")
            /\ UNCHANGED <<reports, next_id, rp_req, rp_task>>
       ELSE /\ next_id.timelines + next_id.reports < MaxRequests
            /\ reports' = reports \cup
                  {[id |-> next_id.reports + 1, title |-> "Legal Report: Contract Dispute Analysis",
                    content |-> PLACEHOLDER_REPORT, timeline_id |-> timeline_id]}
            /\ next_id' = [next_id EXCEPT !.reports = @ + 1]
            /\ rp_req' = Append(rp_req, [NoReportRequest EXCEPT !.timeline_id = timeline_id])
            /\ rp_task' = Append(rp_task, NoReportTask)
            /\ UNCHANGED http_response
    /\ UNCHANGED <<evVars, ingestVars, rawVars, aggVars, llmVars, tlVars, deleted>>
\* generate_report up to the end of `await db.commit()`, or up to the 404
\* when db.get finds no timeline
GenerateReportCommit(timeline_id) ==
    /\ IF ~Exists(timelines, timeline_id)
       THEN /\ http_response' =
                  Response("generate_report", "", timeline_id, ExceptHTTPException(404), "not found")
            /\ UNCHANGED <<reports, next_id, rp_req, rp_task>>
       ELSE /\ next_id.timelines + next_id.reports < MaxRequests
            /\ reports' = reports \cup
                  {[id |-> next_id.reports + 1, title |-> "Legal Report: Contract Dispute Analysis",
                    content |-> PLACEHOLDER_REPORT, timeline_id |-> timeline_id]}
            /\ next_id' = [next_id EXCEPT !.reports = @ + 1]
            /\ rp_req' = Append(rp_req, [NoReportRequest EXCEPT !.timeline_id = timeline_id])
            /\ rp_task' = Append(rp_task, NoReportTask)
            /\ UNCHANGED http_response
    /\ UNCHANGED <<evVars, ingestVars, rawVars, aggVars, llmVars, tlVars, deleted>>

\* generate_report from `await db.refresh(new_report)` to the response
GenerateReportReturn(id) ==
    /\ id \in ReportIds
    /\ rp_req[id].pc = "committed"
    /\ IF Exists(reports, id)
       THEN /\ rp_task' = [rp_task EXCEPT ![id].pc = "scheduled"]
            /\ rp_req' = [rp_req EXCEPT ![id].pc = "returned", ![id].response = "processing"]
       ELSE /\ rp_req' = [rp_req EXCEPT ![id].pc = "returned", ![id].response = "500"]
            /\ UNCHANGED rp_task
    /\ UNCHANGED <<http_response, evVars, ingestVars, rawVars, aggVars, llmVars, tlVars, reports, next_id, deleted>>

RaiseInReportTask(id, msg) ==
    rp_task' = [rp_task EXCEPT ![id].pc = "except", ![id].error = msg]

\* ORDER BY date of SQLite: NULL first, then ascending
OrderedByDate(q) ==
    \A i, j \in 1..Len(q) : i < j => (q[i].date = NULL \/ (q[j].date # NULL /\ DtLeq(q[i].date, q[j].date)))

\* a task that goes on with empty timeline data when the Timeline is gone
ReportTaskFetch_EmptyOnMissing(id, events) ==
    /\ id \in ReportIds
    /\ rp_task[id].pc = "scheduled"
    /\ events \in Orderings({e \in timeline_events : e.timeline_id = rp_req[id].timeline_id})
    /\ OrderedByDate(events)
    /\ rp_task' = [rp_task EXCEPT
          ![id].pc = "llm",
          ![id].timeline_data =
              IF Exists(timelines, rp_req[id].timeline_id)
              THEN [title |-> RowOf(timelines, rp_req[id].timeline_id).title,
                    overview |-> RowOf(timelines, rp_req[id].timeline_id).description,
                    events |-> events]
              ELSE [title |-> "", overview |-> "", events |-> events]]
    /\ UNCHANGED <<http_response, evVars, ingestVars, rawVars, aggVars, llmVars, tlVars, reports, next_id, deleted, rp_req>>
\* generate_report_task, lines 59-103: read the timeline and its events
ReportTaskFetch(id, events) ==
    /\ id \in ReportIds
    /\ rp_task[id].pc = "scheduled"
    /\ events \in Orderings({e \in timeline_events : e.timeline_id = rp_req[id].timeline_id})
    /\ OrderedByDate(events)
    /\ IF Exists(timelines, rp_req[id].timeline_id)
       THEN rp_task' = [rp_task EXCEPT
                ![id].pc = "llm",
                ![id].timeline_data =
                    [title |-> RowOf(timelines, rp_req[id].timeline_id).title,
                     overview |-> RowOf(timelines, rp_req[id].timeline_id).description,
                     events |-> events]]
       ELSE RaiseInReportTask(id, "'NoneType' object has no attribute 'title'")
    /\ UNCHANGED <<http_response, evVars, ingestVars, rawVars, aggVars, llmVars, tlVars, reports, next_id, deleted, rp_req>>

\* line 106: await openai_service.generate_report(timeline_data, evidence_data)
ReportTaskLLM(id, outcome) ==
    /\ id \in ReportIds
    /\ rp_task[id].pc = "llm"
    /\ rp_task' = [rp_task EXCEPT ![id].pc = "write",
                                  ![id].report_data = OpenAIGenerateReport(outcome),
                                  ![id].llm_calls = @ + 1]
    /\ UNCHANGED <<http_response, evVars, ingestVars, rawVars, aggVars, llmVars, tlVars, reports, next_id, deleted, rp_req>>

\* a task that commits the sections built so far before the exception leaves
ReportTaskWrite_PartialOnError(id) ==
    /\ id \in ReportIds
    /\ rp_task[id].pc = "write"
    /\ IF ~Exists(reports, id)
       THEN /\ rp_task' = [rp_task EXCEPT ![id].pc = "done"]
            /\ UNCHANGED reports
       ELSE IF RenderRaises(rp_task[id].report_data)
       THEN /\ RaiseInReportTask(id, RenderErrorText(rp_task[id].report_data))
            /\ reports' = (reports \ {RowOf(reports, id)}) \cup
                    {[RowOf(reports, id) EXCEPT !.content = ""]}
       ELSE /\ reports' = (reports \ {RowOf(reports, id)}) \cup
                    {[RowOf(reports, id) EXCEPT !.content = RenderContent(rp_task[id].report_data)]}
            /\ rp_task' = [rp_task EXCEPT ![id].pc = "done"]
    /\ UNCHANGED <<http_response, evVars, ingestVars, rawVars, aggVars, llmVars, tlVars, next_id, deleted, rp_req>>

\* lines 109-172: render the content and commit it
ReportTaskWrite(id) ==
    /\ id \in ReportIds
    /\ rp_task[id].pc = "write"
    /\ IF ~Exists(reports, id)
       THEN /\ rp_task' = [rp_task EXCEPT ![id].pc = "done"]
            /\ UNCHANGED reports
       ELSE IF RenderRaises(rp_task[id].report_data)
       THEN /\ RaiseInReportTask(id, RenderErrorText(rp_task[id].report_data))
            /\ UNCHANGED reports
       ELSE /\ reports' = (reports \ {RowOf(reports, id)}) \cup
                    {[RowOf(reports, id) EXCEPT !.content = RenderContent(rp_task[id].report_data)]}
            /\ rp_task' = [rp_task EXCEPT ![id].pc = "done"]
    /\ UNCHANGED <<http_response, evVars, ingestVars, rawVars, aggVars, llmVars, tlVars, next_id, deleted, rp_req>>

\* a handler that removes the row of the failed generation
ReportTaskExcept_DeleteRow(id) ==
    /\ id \in ReportIds
    /\ rp_task[id].pc = "except"
    /\ reports' = {r \in reports : r.id # id}
    /\ rp_task' = [rp_task EXCEPT ![id].pc = "done"]
    /\ UNCHANGED <<http_response, evVars, ingestVars, rawVars, aggVars, llmVars, tlVars, next_id, deleted, rp_req>>

\* lines 174-181: the handler at the task's outermost boundary
ReportTaskExcept(id) ==
    /\ id \in ReportIds
    /\ rp_task[id].pc = "except"
    /\ IF Exists(reports, id)
       THEN reports' = (reports \ {RowOf(reports, id)}) \cup
                {[RowOf(reports, id) EXCEPT
                    !.content = "Error generating report: " \o rp_task[id].error]}
       ELSE UNCHANGED reports
    /\ rp_task' = [rp_task EXCEPT ![id].pc = "done"]
    /\ UNCHANGED <<http_response, evVars, ingestVars, rawVars, aggVars, llmVars, tlVars, next_id, deleted, rp_req>>

\* db.delete(report) and the commit
DeleteReportRows(id) ==
    /\ reports' = reports \ {RowOf(reports, id)}
    /\ deleted' = [deleted EXCEPT !.reports = @ \cup {id}]

\* delete_report on an existing id
DeleteReport(id) ==
    /\ Exists(reports, id)
    /\ DeleteReportRows(id)
    /\ UNCHANGED <<http_response, evVars, ingestVars, rawVars, aggVars, llmVars, tlVars, next_id, rp_req, rp_task>>

ReportOutcomes ==
    {Reply(R_RP_OK), Reply(R_NULL), Reply(R_LIST), Reply(R_TEXT), TransportError("Request timed out")}

NextReport ==
    \/ \E timeline_id \in {row.id : row \in timelines} : GenerateReportCommit(timeline_id)
    \/ \E id \in ReportIds : GenerateReportReturn(id)
    \/ \E id \in ReportIds : \E events \in Orderings({e \in timeline_events : e.timeline_id = rp_req[id].timeline_id}) :
          ReportTaskFetch(id, events)
    \/ \E id \in ReportIds, outcome \in ReportOutcomes : ReportTaskLLM(id, outcome)
    \/ \E id \in ReportIds : ReportTaskWrite(id)
    \/ \E id \in ReportIds : ReportTaskExcept(id)
    \/ \E id \in ReportIds : DeleteReport(id)

NextGen == NextTimeline(MaxRequests - next_id.reports) \/ NextReport

SpecGen == InitGen /\ [][NextGen]_vars

----------------------------------------------------------------------------
(* Claims about the Timeline / Report lifecycle *)

EventsOf(table, timeline_id) == {e \in table : e.timeline_id = timeline_id}

C6_NoPlaceholderAfterCompletion ==
    \A id \in TimelineIds :
        (tl_task[id].pc = "done" /\ Exists(timelines, id)) =>
            RowOf(timelines, id).description # PLACEHOLDER_TIMELINE

\* the reply is a JSON object whose overview is the placeholder string itself
EchoesPlaceholder(timeline_data) ==
    /\ HasKey(timeline_data, "overview")
    /\ timeline_data.d.overview = JStr(PLACEHOLDER_TIMELINE)

\* C6 amended: once the task has completed (success or failure path), the
\* row's description is not the placeholder string, unless the model's reply
\* is a JSON object whose overview is that placeholder string.
C6_NoPlaceholderUnlessEchoed ==
    \A id \in TimelineIds :
        (tl_task[id].pc = "done" /\ Exists(timelines, id) /\ ~EchoesPlaceholder(tl_task[id].timeline_data)) =>
            RowOf(timelines, id).description # PLACEHOLDER_TIMELINE

\* C6 witness: one task completed on the success path and one on the failure
\* path, both rows rewritten.
C6_Witness ==
    /\ Len(tl_task) = 2
    /\ tl_task[1].pc = "done" /\ tl_task[1].error = ""
    /\ Exists(timelines, 1) /\ RowOf(timelines, 1).description = "Invoice dispute"
    /\ tl_task[2].pc = "done" /\ tl_task[2].error # ""
    /\ Exists(timelines, 2)
    /\ RowOf(timelines, 2).description = "Error generating timeline: " \o tl_task[2].error

\* C7: an exception raised in a timeline or report generation task ends the
\* task with the error string written to the row's description / content;
\* the task never deletes the row (a missing row was removed by a DELETE
\* request) and never calls the model a second time.
C7_FailureRecordedNoDeleteNoRetry ==
    /\ \A id \in TimelineIds :
          /\ (tl_task[id].pc = "done" /\ tl_task[id].error # "" /\ Exists(timelines, id)) =>
                RowOf(timelines, id).description = "Error generating timeline: " \o tl_task[id].error
          /\ Exists(timelines, id) \/ id \in deleted.timelines
          /\ tl_task[id].llm_calls <= 1
    /\ \A id \in ReportIds :
          /\ (rp_task[id].pc = "done" /\ rp_task[id].error # "" /\ Exists(reports, id)) =>
                RowOf(reports, id).content = "Error generating report: " \o rp_task[id].error
          /\ Exists(reports, id) \/ id \in deleted.reports
          /\ rp_task[id].llm_calls <= 1

\* C7 witness: a timeline task and a report task have both failed after
\* their model call and their rows carry the error strings.
C7_Witness ==
    /\ Len(tl_task) >= 1 /\ tl_task[1].pc = "done" /\ tl_task[1].error # "" /\ tl_task[1].llm_calls = 1
    /\ Exists(timelines, 1)
    /\ RowOf(timelines, 1).description = "Error generating timeline: " \o tl_task[1].error
    /\ Len(rp_task) >= 1 /\ rp_task[1].pc = "done" /\ rp_task[1].error # "" /\ rp_task[1].llm_calls = 1
    /\ Exists(reports, 1)
    /\ RowOf(reports, 1).content = "Error generating report: " \o rp_task[1].error

----------------------------------------------------------------------------
(* Mail ingestion: routes/emails.py, services/email_service.py *)

MaxMessages == 3

\* provider message ids and the records _parse_message builds for them
MessageIds == {"m1", "m2"}
\* (the provider serves m1 with two contents, m2 with one)
EmailData ==
    {m \in [email_id : MessageIds, date : {<<2024, 1, 1, 0, 0, 0, 0>>},
            body : {"body", "body (edited)"}] : m.email_id = "m2" => m.body = "body"}

\* lists fetch_emails can return ([] also stands for a failed fetch)
Batches == UNION {[1..n -> EmailData] : n \in 0..MaxMessages}

RECURSIVE Fetched(_)
\* the number of messages the tasks started so far have fetched
Fetched(tasks) ==
    IF tasks = <<>> THEN 0 ELSE Len(Head(tasks).emails) + Fetched(Tail(tasks))

\* fetch_and_save_emails up to the first SELECT of save_emails; an empty
\* list is not saved
FetchEmails(addresses, batch) ==
    /\ Len(em_task) < MaxMessages
    /\ Fetched(em_task) + Len(batch) <= MaxMessages
    /\ IF addresses = <<>>
       THEN /\ http_response' =
                  Response("fetch_emails", "", Len(addresses), ExceptException(400), "error")
            /\ UNCHANGED em_task
       ELSE /\ http_response' = Response("fetch_emails", "", Len(addresses), 200, "processing")
            /\ em_task' = Append(em_task,
                  [pc |-> IF batch = <<>> THEN "done" ELSE "check",
                   emails |-> batch, i |-> 1, new |-> <<>>, saved_emails |-> <<>>])
    /\ UNCHANGED <<evVars, rawVars, aggVars, llmVars, genVars, raw_next_id, pdf_task, chat_file, chat_task>>

\* save_emails that overwrites the stored row with the fetched message
SaveEmailsCheck_Upsert(t) ==
    /\ t \in 1..Len(em_task)
    /\ em_task[t].pc = "check"
    /\ LET email_data == em_task[t].emails[em_task[t].i]
           last == em_task[t].i = Len(em_task[t].emails)
       IN  /\ emails' = {IF e.email_id = email_data.email_id
                         THEN [e EXCEPT !.body = email_data.body] ELSE e : e \in emails}
           /\ em_task' = [em_task EXCEPT
                    ![t].new = IF \E e \in emails : e.email_id = email_data.email_id
                               THEN @ ELSE Append(@, email_data),
                    ![t].i = @ + 1,
                    ![t].pc = IF last THEN "commit" ELSE "check"]
    /\ UNCHANGED <<http_response, evVars, chats, pdfs, aggVars, llmVars, genVars, raw_next_id, pdf_task, chat_file, chat_task>>
\* save_emails, lines 147-169, one iteration: the SELECT sees committed rows
\* only (autoflush is off)
SaveEmailsCheck(t) ==
    /\ t \in 1..Len(em_task)
    /\ em_task[t].pc = "check"
    /\ LET email_data == em_task[t].emails[em_task[t].i]
           last == em_task[t].i = Len(em_task[t].emails)
       IN  IF \E e \in emails : e.email_id = email_data.email_id
           THEN em_task' = [em_task EXCEPT
                    ![t].saved_emails =
                        Append(@, CHOOSE e \in emails : e.email_id = email_data.email_id),
                    ![t].i = @ + 1,
                    ![t].pc = IF last THEN "commit" ELSE "check"]
           ELSE em_task' = [em_task EXCEPT
                    ![t].new = Append(@, email_data),
                    ![t].saved_emails = Append(@, [id |-> 0, email_id |-> email_data.email_id,
                                                   date |-> email_data.date, body |-> email_data.body]),
                    ![t].i = @ + 1,
                    ![t].pc = IF last THEN "commit" ELSE "check"]
    /\ UNCHANGED <<http_response, evVars, rawVars, aggVars, llmVars, genVars, raw_next_id, pdf_task, chat_file, chat_task>>

\* a unique index that only looks at the committed rows
UniqueViolation_StoredOnly(new) ==
    \E i \in 1..Len(new) : \E e \in emails : e.email_id = new[i].email_id
\* the INSERTs of one commit violate UNIQUE(email_id)
UniqueViolation(new) ==
    \/ \E i \in 1..Len(new) : \E e \in emails : e.email_id = new[i].email_id
    \/ \E i, j \in 1..Len(new) : i # j /\ new[i].email_id = new[j].email_id

\* a commit on a table without the unique constraint
SaveEmailsCommit_NoUnique(t) ==
    /\ t \in 1..Len(em_task)
    /\ em_task[t].pc = "commit"
    /\ LET new == em_task[t].new
       IN  /\ emails' = emails \cup
                  {[id |-> raw_next_id.emails + i, email_id |-> new[i].email_id,
                    date |-> new[i].date, body |-> new[i].body] : i \in 1..Len(new)}
           /\ raw_next_id' = [raw_next_id EXCEPT !.emails = @ + Len(new)]
           /\ em_task' = [em_task EXCEPT ![t].pc = "done", ![t].new = <<>>]
    /\ UNCHANGED <<http_response, evVars, chats, pdfs, aggVars, llmVars, genVars, pdf_task, chat_file, chat_task>>

\* save_emails, line 171: one transaction inserts every added Email; an
\* IntegrityError rolls it back and leaves save_emails for the handler of
\* fetch_and_save_emails
SaveEmailsCommit(t) ==
    /\ t \in 1..Len(em_task)
    /\ em_task[t].pc = "commit"
    /\ LET new == em_task[t].new
       IN  IF UniqueViolation(new)
           THEN /\ em_task' = [em_task EXCEPT ![t].pc = "failed", ![t].new = <<>>,
                                              ![t].saved_emails = <<>>]
                /\ UNCHANGED <<emails, raw_next_id>>
           ELSE /\ emails' = emails \cup
                      {[id |-> raw_next_id.emails + i, email_id |-> new[i].email_id,
                        date |-> new[i].date, body |-> new[i].body] : i \in 1..Len(new)}
                /\ raw_next_id' = [raw_next_id EXCEPT !.emails = @ + Len(new)]
                /\ em_task' = [em_task EXCEPT ![t].pc = "done", ![t].new = <<>>]
    /\ UNCHANGED <<http_response, evVars, chats, pdfs, aggVars, llmVars, genVars, pdf_task, chat_file, chat_task>>

InitIngest ==
    /\ emails = {} /\ chats = {} /\ pdfs = {}
    /\ IdleAgg
    /\ IdleLLM
    /\ IdleGen
    /\ IdleEvidence
    /\ IdleIngest

NextEmail ==
    \/ \E batch \in Batches : FetchEmails(<<"client@example.com">>, batch)
    \/ \E t \in 1..Len(em_task) : SaveEmailsCheck(t)
    \/ \E t \in 1..Len(em_task) : SaveEmailsCommit(t)

SpecEmail == InitIngest /\ [][NextEmail]_vars

\* the task is in save_emails and the SELECT it is about to run finds the id
FindsStored(t) ==
    /\ em_task[t].pc = "check"
    /\ \E e \in emails : e.email_id = em_task[t].emails[em_task[t].i].email_id

\* C8: there is at most one Email row per provider message id, whatever the
\* batches and the interleaving of the save tasks; stored rows are never
\* changed; and saving a message whose id save_emails finds stored adds
\* nothing and returns the stored row.
C8_OneRowPerMessageId ==
    [][ /\ \A e1, e2 \in emails' : e1.email_id = e2.email_id => e1 = e2
        /\ emails \subseteq emails'
        /\ \A t \in 1..Len(em_task) :
              (FindsStored(t) /\ em_task'[t] # em_task[t]) =>
                  /\ emails' = emails
                  /\ em_task'[t].new = em_task[t].new
                  /\ em_task'[t].saved_emails =
                        Append(em_task[t].saved_emails,
                               CHOOSE e \in emails : e.email_id = em_task[t].emails[em_task[t].i].email_id)
        /\ \A t \in 1..Len(em_task) :
              (em_task[t].pc = "commit" /\ em_task'[t].pc = "done") =>
                  Cardinality(emails') = Cardinality(emails) + Len(em_task[t].new)
      ]_vars

\* C8 witness: a first task stored a message, and a second task has
\* finished a batch that carried the same id with other content: it got the
\* stored row back and the table still holds that single row.
C8_Witness ==
    /\ Len(em_task) = 2
    /\ em_task[1].pc = "done"
    /\ em_task[2].pc = "done"
    /\ Cardinality(emails) = 1
    /\ \E i \in 1..Len(em_task[2].emails) :
          /\ em_task[2].saved_emails[i] \in emails
          /\ em_task[2].saved_emails[i].body # em_task[2].emails[i].body

----------------------------------------------------------------------------
(* PDF ingestion: routes/upload.py, services/pdf_service.py *)

MaxPdfTasks == 2

PDF_UPLOAD_DIR == "./uploads/pdfs"
\* uploaded file names (all end in .pdf) and the contents of the uploads
UploadNames == {"invoice.pdf", "receipt.pdf"}
UploadTexts == {"text", "text (rev)"}
\* values of os.urandom(4).hex()
Suffixes == {"00000000", "ffffffff"}

\* os.path.splitext(file.filename)[0]
Stem(name) ==
    CASE name = "invoice.pdf" -> "invoice"
      [] name = "receipt.pdf" -> "receipt"
      [] name = "chat.txt" -> "chat"

\* the names upload_pdf and upload_chat_log store files under
StoredPdfNames == {Stem(name) \o "_" \o suffix \o ".pdf" : name \in UploadNames, suffix \in Suffixes}
StoredChatNames == {"chat_" \o suffix \o ".txt" : suffix \in Suffixes}

\* the extension str.endswith() is asked about
Ext(name) ==
    CASE name \in UploadNames \cup StoredPdfNames -> ".pdf"
      [] name \in {"chat.txt"} \cup StoredChatNames -> ".txt"
      [] OTHER -> ""

\* the file at a path holds what the last upload to that path wrote
FileText(path) ==
    LET ups == {t \in 1..Len(pdf_task) : pdf_task[t].file_path = path}
        last == CHOOSE t \in ups : \A u \in ups : u <= t
    IN  pdf_task[last].upload

\* upload_pdf, lines 77-105: writes the file and schedules process_pdf_file
UploadPdf(name, suffix, text) ==
    /\ Len(pdf_task) < MaxPdfTasks
    /\ IF Ext(name) # ".pdf"
       THEN /\ http_response' = Response("upload_pdf", name, 0, ExceptException(400), "error")
            /\ UNCHANGED pdf_task
       ELSE LET filename == Stem(name) \o "_" \o suffix \o ".pdf"
                file_path == PDF_UPLOAD_DIR \o "/" \o filename
            IN  /\ http_response' = Response("upload_pdf", name, 0, 200, "processing")
                /\ pdf_task' = Append(pdf_task,
                      [pc |-> "process", file_name |-> filename, file_path |-> file_path,
                       upload |-> text, extracted_text |-> "", saved |-> 0])
    /\ UNCHANGED <<evVars, rawVars, aggVars, llmVars, genVars, raw_next_id, em_task, chat_file, chat_task>>

\* process_pdf_file whose failure result is saved like a text
ProcessPdfFile_SaveNone(t, readable) ==
    /\ t \in 1..Len(pdf_task)
    /\ pdf_task[t].pc = "process"
    /\ pdf_task' = [pdf_task EXCEPT
          ![t].pc = "check",
          ![t].extracted_text = IF readable THEN FileText(pdf_task[t].file_path) ELSE ""]
    /\ UNCHANGED <<http_response, evVars, rawVars, aggVars, llmVars, genVars, raw_next_id, em_task, chat_file, chat_task>>

\* PDFService.process_pdf_file: the text of the file, or None when the
\* reader raises; a None result is not saved
ProcessPdfFile(t, readable) ==
    /\ t \in 1..Len(pdf_task)
    /\ pdf_task[t].pc = "process"
    /\ pdf_task' = [pdf_task EXCEPT
          ![t].pc = IF readable THEN "check" ELSE "failed",
          ![t].extracted_text = IF readable THEN FileText(pdf_task[t].file_path) ELSE ""]
    /\ UNCHANGED <<http_response, evVars, rawVars, aggVars, llmVars, genVars, raw_next_id, em_task, chat_file, chat_task>>

\* result.scalars().first() of the SELECT by file_path
ExistingPdf(path) ==
    LET found == {p \in pdfs : p.file_path = path}
    IN  CHOOSE p \in found : \A q \in found : p.id <= q.id

\* save_pdf_document, lines 64-70: the existence check
SavePdfCheck(t) ==
    /\ t \in 1..Len(pdf_task)
    /\ pdf_task[t].pc = "check"
    /\ IF \E p \in pdfs : p.file_path = pdf_task[t].file_path
       THEN pdf_task' = [pdf_task EXCEPT ![t].pc = "done",
                                         ![t].saved = ExistingPdf(pdf_task[t].file_path).id]
       ELSE pdf_task' = [pdf_task EXCEPT ![t].pc = "commit"]
    /\ UNCHANGED <<http_response, evVars, rawVars, aggVars, llmVars, genVars, raw_next_id, em_task, chat_file, chat_task>>

\* save_pdf_document, lines 73-84: add, commit, refresh; the pdfs table has
\* no constraint on file_path
SavePdfCommit(t) ==
    /\ t \in 1..Len(pdf_task)
    /\ pdf_task[t].pc = "commit"
    /\ LET id == raw_next_id.pdfs + 1
       IN  /\ pdfs' = pdfs \cup {[id |-> id, file_name |-> pdf_task[t].file_name,
                                  extracted_text |-> pdf_task[t].extracted_text,
                                  file_path |-> pdf_task[t].file_path]}
           /\ raw_next_id' = [raw_next_id EXCEPT !.pdfs = id]
           /\ pdf_task' = [pdf_task EXCEPT ![t].pc = "done", ![t].saved = id]
    /\ UNCHANGED <<http_response, evVars, emails, chats, aggVars, llmVars, genVars, em_task, chat_file, chat_task>>

NextPdf ==
    \/ \E name \in UploadNames, suffix \in Suffixes, text \in UploadTexts :
          UploadPdf(name, suffix, text)
    \/ \E t \in 1..Len(pdf_task), readable \in BOOLEAN : ProcessPdfFile(t, readable)
    \/ \E t \in 1..Len(pdf_task) : SavePdfCheck(t)
    \/ \E t \in 1..Len(pdf_task) : SavePdfCommit(t)

SpecPdf == InitIngest /\ [][NextPdf]_vars

\* C9: there is at most one PDFDocument row per file_path, also when two
\* save tasks for the same path interleave between the existence check and
\* the commit.
C9_OneRowPerFilePath ==
    \A p1, p2 \in pdfs : p1.file_path = p2.file_path => p1 = p2

----------------------------------------------------------------------------
(* Chat ingestion: routes/upload.py, services/chat_service.py *)

MaxChatLines == 2

CHAT_UPLOAD_DIR == "./uploads/chats"

\* One match of the header pattern of process_chat_file: the date group
\* a/b/y with the number of digits of y, the time group h:mi with optional
\* seconds (s = -1 when absent) and optional AM/PM, the sender and the
\* message groups as captured.
Line(a, b, y, ylen, h, mi, sec, ampm, sender, message) ==
    [date |-> [a |-> a, b |-> b, y |-> y, ylen |-> ylen],
     time |-> [h |-> h, mi |-> mi, s |-> sec, ampm |-> ampm],
     sender |-> sender, message |-> message]

\* [1/2/24, 10:30 AM] Alice: Hello
LineAlice == Line(1, 2, 24, 2, 10, 30, -1, "AM", "Alice", "Hello")
\* [1/3/24, 9:15] Bob: Reply
LineBob == Line(1, 3, 24, 2, 9, 15, -1, "", "Bob", "Reply")
\* [13/1/24, 18:05] Bob : Reply
LineDayFirst == Line(13, 1, 24, 2, 18, 5, -1, "", "Bob ", "Reply")
\* [1/2/24, 10:30:15] Alice: Hello
LineSeconds == Line(1, 2, 24, 2, 10, 30, 15, "", "Alice", "Hello ")
\* [12/25/23, 3:45 PM] Alice: Hello
LinePM == Line(12, 25, 23, 2, 3, 45, -1, "PM", "Alice", "Hello")
\* [1/2/2024, 10:30] Bob: Reply
LineLongYear == Line(1, 2, 2024, 4, 10, 30, -1, "", "Bob", "Reply")
\* [2/30/24, 25:61] Alice: Hello
LineNoTime == Line(2, 30, 24, 2, 25, 61, -1, "", "Alice", "Hello")

\* [1/4/24, 8:00]  : Hello      (the sender group [^:]+ takes one blank)
LineBlankSender == Line(1, 4, 24, 2, 8, 0, -1, "", " ", "Hello")
\* [1/4/24, 8:00] Alice:         (the message group .*? is empty before $)
LineEmptyMessage == Line(1, 4, 24, 2, 8, 0, -1, "", "Alice", "")

Lines == {LineAlice, LineBob, LineDayFirst, LineSeconds, LinePM, LineLongYear, LineNoTime,
          LineBlankSender, LineEmptyMessage}

\* the matches re.findall returns for a chat file, in file order
\* (an empty message group ends at $, so only the last match can have one)
ChatFiles ==
    UNION {{f \in [1..n -> Lines] : \A i \in 1..(n - 1) : f[i].message # ""} : n \in 1..MaxChatLines}
ScenarioFile == <<LineAlice, LineBob>>

\* values of datetime.utcnow() while the file is processed
Clock == {<<2026, 11, 3, 8, 0, 0, 0>>, <<2026, 11, 4, 8, 0, 0, 0>>}

\* str.strip() on the captured groups
Strip(str) ==
    CASE str = "Bob " -> "Bob"
      [] str = "Hello " -> "Hello"
      [] str = " " -> ""
      [] OTHER -> str

IsLeap(year) == (year % 4 = 0 /\ year % 100 # 0) \/ year % 400 = 0
DaysIn(month, year) ==
    CASE month \in {4, 6, 9, 11} -> 30
      [] month = 2 -> IF IsLeap(year) THEN 29 ELSE 28
      [] OTHER -> 31

\* %y: two digits, 69-99 are 19xx and 00-68 are 20xx
Year2(y) == IF y >= 69 THEN 1900 + y ELSE 2000 + y

\* the same formats with each day-first format ahead of its month-first one
Formats_DayFirst ==
    << [month_first |-> FALSE, seconds |-> FALSE],
       [month_first |-> TRUE, seconds |-> FALSE],
       [month_first |-> FALSE, seconds |-> TRUE],
       [month_first |-> TRUE, seconds |-> TRUE] >>
\* the four formats, in the order process_chat_file tries them
Formats ==
    << [month_first |-> TRUE, seconds |-> FALSE],     \* %m/%d/%y %H:%M
       [month_first |-> FALSE, seconds |-> FALSE],    \* %d/%m/%y %H:%M
       [month_first |-> TRUE, seconds |-> TRUE],      \* %m/%d/%y %H:%M:%S
       [month_first |-> FALSE, seconds |-> TRUE] >>   \* %d/%m/%y %H:%M:%S

\* datetime.strptime(f"{date_str} {time_str}", fmt): the datetime, or
\* ValueError when a directive does not match, text remains after the
\* format, or the fields are no calendar date
ValueError == <<"ValueError">>
Strptime(date, time, fmt) ==
    LET month == IF fmt.month_first THEN date.a ELSE date.b
        day == IF fmt.month_first THEN date.b ELSE date.a
        year == Year2(date.y)
    IN  IF /\ date.ylen = 2
           /\ time.ampm = ""
           /\ (time.s # -1) = fmt.seconds
           /\ month \in 1..12
           /\ day \in 1..31
           /\ time.h \in 0..23
           /\ time.mi \in 0..59
           /\ (fmt.seconds => time.s \in 0..59)
           /\ day <= DaysIn(month, year)
        THEN <<year, month, day, time.h, time.mi, IF fmt.seconds THEN time.s ELSE 0, 0>>
        ELSE ValueError

RECURSIVE TryFormats(_, _, _)
TryFormats(date, time, k) ==
    IF k > Len(Formats) THEN ValueError
    ELSE LET r == Strptime(date, time, Formats[k])
         IN  IF r # ValueError THEN r ELSE TryFormats(date, time, k + 1)

\* process_chat_file, lines 39-58: the nested try blocks and the fallback
ParseDateTime(line, now) ==
    LET r == TryFormats(line.date, line.time, 1)
    IN  IF r # ValueError THEN r ELSE now

ChatMessage(line, now, file_path) ==
    [date_time |-> ParseDateTime(line, now), sender |-> Strip(line.sender),
     message |-> Strip(line.message), file_path |-> file_path]

\* upload_chat_log, lines 35-49: stores the file under a fresh name and
\* schedules process_chat_file
UploadChatLog(name, suffix) ==
    /\ chat_task.pc = "none"
    /\ IF Ext(name) # ".txt"
       THEN /\ http_response' = Response("upload_chat_log", name, 0, ExceptException(400), "error")
            /\ UNCHANGED chat_task
       ELSE /\ http_response' = Response("upload_chat_log", name, 0, 200, "processing")
            /\ chat_task' = [chat_task EXCEPT
                  !.pc = "process",
                  !.file_path = CHAT_UPLOAD_DIR \o "/" \o Stem(name) \o "_" \o suffix \o ".txt"]
    /\ UNCHANGED <<evVars, rawVars, aggVars, llmVars, genVars, raw_next_id, em_task, pdf_task, chat_file>>

\* ChatService.process_chat_file: one message per match, or [] when reading
\* the file raises
ProcessChatFile(now, readable) ==
    /\ chat_task.pc = "process"
    /\ chat_task' = [chat_task EXCEPT
          !.pc = "save",
          !.chat_messages =
              IF readable
              THEN [i \in 1..Len(chat_file) |-> ChatMessage(chat_file[i], now, chat_task.file_path)]
              ELSE <<>>]
    /\ UNCHANGED <<http_response, evVars, rawVars, aggVars, llmVars, genVars, raw_next_id, em_task, pdf_task, chat_file>>

\* ChatService.save_chat_messages: one ChatLog per message, one commit
SaveChatMessages ==
    /\ chat_task.pc = "save"
    /\ LET msgs == chat_task.chat_messages
       IN  /\ chats' = chats \cup
                  {[id |-> raw_next_id.chat_logs + i, date_time |-> msgs[i].date_time,
                    sender |-> msgs[i].sender, message |-> msgs[i].message,
                    file_path |-> msgs[i].file_path] : i \in 1..Len(msgs)}
           /\ raw_next_id' = [raw_next_id EXCEPT !.chat_logs = @ + Len(msgs)]
    /\ chat_task' = [chat_task EXCEPT !.pc = "done"]
    /\ UNCHANGED <<http_response, evVars, emails, pdfs, aggVars, llmVars, genVars, em_task, pdf_task, chat_file>>

InitChat ==
    /\ emails = {} /\ chats = {} /\ pdfs = {}
    /\ IdleAgg
    /\ IdleLLM
    /\ IdleGen
    /\ IdleEvidence
    /\ raw_next_id = [emails |-> 0, chat_logs |-> 0, pdfs |-> 0]
    /\ em_task = <<>> /\ pdf_task = <<>>
    /\ chat_file \in ChatFiles
    /\ chat_task = NoChatTask

NextChat ==
    \/ \E suffix \in Suffixes : UploadChatLog("chat.txt", suffix)
    \/ \E now \in Clock, readable \in BOOLEAN : ProcessChatFile(now, readable)
    \/ SaveChatMessages

SpecChat == InitChat /\ [][NextChat]_vars

\* the header's time group reads as a time of day, on the 24-hour clock or
\* on the 12-hour clock with AM/PM
HasClockTime(line) ==
    /\ IF line.time.ampm = "" THEN line.time.h \in 0..23 ELSE line.time.h \in 1..12
    /\ line.time.mi \in 0..59
    /\ line.time.s \in -1..59

\* the timestamp the header writes: month first unless only day first is a
\* date, AM/PM converted to the 24-hour clock
WrittenTimestamp(line) ==
    LET year == IF line.date.ylen = 2 THEN Year2(line.date.y) ELSE line.date.y
        month_first == line.date.a \in 1..12 /\ line.date.b \in 1..DaysIn(line.date.a, year)
        month == IF month_first THEN line.date.a ELSE line.date.b
        day == IF month_first THEN line.date.b ELSE line.date.a
        hour == CASE line.time.ampm = "AM" -> line.time.h % 12
                  [] line.time.ampm = "PM" -> (line.time.h % 12) + 12
                  [] OTHER -> line.time.h
    IN  <<year, month, day, hour, line.time.mi,
          IF line.time.s = -1 THEN 0 ELSE line.time.s, 0>>

\* C10: once a readable chat file is ingested, it has one ChatLog row per
\* message, every message whose header carries a clock time (AM/PM
\* included) is dated as written in the file, and the two-line file of
\* Alice and Bob gives exactly Alice at 2024-01-02T10:30 and Bob at
\* 2024-01-03T09:15.
C10_StoredWithWrittenTimestamp ==
    (chat_task.pc = "done" /\ Len(chat_task.chat_messages) = Len(chat_file)) =>
        /\ Cardinality(chats) = Len(chat_file)
        /\ \A i \in 1..Len(chat_file) :
              HasClockTime(chat_file[i]) =>
                  \E c \in chats : c.id = i /\ c.date_time = WrittenTimestamp(chat_file[i])
        /\ chat_file = ScenarioFile =>
              {<<c.sender, c.date_time>> : c \in chats} =
                  {<<"Alice", <<2024, 1, 2, 10, 30, 0, 0>> >>,
                   <<"Bob", <<2024, 1, 3, 9, 15, 0, 0>> >>}

\* C11: every message process_chat_file returns has a non-empty sender and
\* a non-empty message after trimming, and the returned list follows the
\* order of the matches in the file.
C11_NonEmptyInFileOrder ==
    (chat_task.pc \in {"save", "done"} /\ Len(chat_task.chat_messages) = Len(chat_file)) =>
        \A i \in 1..Len(chat_file) :
            /\ chat_task.chat_messages[i].sender # ""
            /\ chat_task.chat_messages[i].message # ""
            /\ chat_task.chat_messages[i].sender = Strip(chat_file[i].sender)
            /\ chat_task.chat_messages[i].message = Strip(chat_file[i].message)

----------------------------------------------------------------------------
(* The three ingestion endpoints and their validation *)

\* file names offered to the two upload endpoints, address lists offered to
\* the fetch endpoint
AllUploadNames == UploadNames \cup {"chat.txt"}
AddressLists == {<<>>, <<"client@example.com">>}

\* requests only: no background task takes a step, the provider has no mail
NextValidate ==
    \/ \E name \in AllUploadNames, suffix \in Suffixes : UploadChatLog(name, suffix)
    \/ \E name \in AllUploadNames, suffix \in Suffixes : UploadPdf(name, suffix, "text")
    \/ \E addresses \in AddressLists : FetchEmails(addresses, <<>>)

SpecValidate == InitIngest /\ [][NextValidate]_vars

\* the request fails the handler's validation
FailsValidation(r) ==
    \/ r.route = "upload_chat_log" /\ Ext(r.name) # ".txt"
    \/ r.route = "upload_pdf" /\ Ext(r.name) # ".pdf"
    \/ r.route = "fetch_emails" /\ r.id = 0

\* C12: an upload with a wrong extension and a fetch with an empty address
\* list are answered with a 4xx status, store no file and schedule no
\* background task.
C12_ValidationErrorIs4xx ==
    [][FailsValidation(http_response') =>
          /\ http_response'.status \in 400..499
          /\ UNCHANGED <<em_task, pdf_task, chat_task>>]_vars

----------------------------------------------------------------------------
(* Evidence analysis: routes/evidence.py, analyze_evidence *)

MaxAnalyses == 2

NoEvidenceTask == [pc |-> "llm", analysis |-> JNone, error |-> ""]

\* outcomes of the provider call in analyze_evidence_task
EvidenceOutcomes ==
    {Reply(R_EV_OK), Reply(R_EV_STRAY), Reply(R_EV_LISTTITLE), Reply(R_EV_NULLRECS),
     Reply(R_NULL), Reply(R_LIST), Reply(R_TEXT), TransportError("Request timed out")}

\* lines 72-78: does Evidence(...) with the five evidence_data.get calls
\* raise?  Only the .get on a value that is no dict does; the constructor
\* takes any value for a column.
EvidenceRaises(evidence_data) == evidence_data.t # "dict"

\* lines 72-78: the Evidence built from one recommendation; the values stay
\* JSON values until the INSERT binds them
NewEvidence(evidence_data) ==
    [title |-> Get(evidence_data, "title", JStr("Untitled Evidence")),
     description |-> Get(evidence_data, "description", JStr("")),
     relevance |-> Get(evidence_data, "relevance", JStr("")),
     source_type |-> Get(evidence_data, "source_type", JStr("unknown")),
     source_id |-> Get(evidence_data, "source_id", JInt(0))]

RECURSIVE NewEvidences(_)
\* lines 69-81: the loop with its inner try / except
NewEvidences(l) ==
    IF l = <<>> THEN <<>>
    ELSE IF EvidenceRaises(Head(l)) THEN NewEvidences(Tail(l))
    ELSE <<NewEvidence(Head(l))>> \o NewEvidences(Tail(l))

\* the INSERT of one Evidence can bind its parameters
EvidenceBindable(new) ==
    /\ Bindable(new.title) /\ Bindable(new.description) /\ Bindable(new.relevance)
    /\ Bindable(new.source_type) /\ Bindable(new.source_id)

\* analyze_evidence: registers the task and answers
AnalyzeEvidence ==
    /\ Len(ev_task) < MaxAnalyses
    /\ ev_task' = Append(ev_task, NoEvidenceTask)
    /\ http_response' = Response("analyze_evidence", "", 0, 200, "processing")
    /\ UNCHANGED <<evidence_table, ingestVars, rawVars, aggVars, llmVars, genVars>>

\* lines 40-64: the three SELECTs and the call of the analysis function
EvidenceTaskLLM(t, outcome) ==
    /\ t \in 1..Len(ev_task)
    /\ ev_task[t].pc = "llm"
    /\ ev_task' = [ev_task EXCEPT ![t].pc = "save", ![t].analysis = OpenAIAnalyzeEvidence(outcome)]
    /\ UNCHANGED <<http_response, evidence_table, ingestVars, rawVars, aggVars, llmVars, genVars>>

\* the rows a commit of the added Evidence objects inserts
EvidenceRows(new, last_id) ==
    {[id |-> last_id + i,
      title |-> ColumnText(new[i].title),
      description |-> ColumnText(new[i].description),
      relevance |-> ColumnText(new[i].relevance),
      source_type |-> ColumnText(new[i].source_type),
      source_id |-> new[i].source_id.n] : i \in 1..Len(new)}

\* an exception leaves the task body for the handler at line 86, which logs it
RaiseInEvidenceTask(t, msg) ==
    /\ ev_task' = [ev_task EXCEPT ![t].pc = "done", ![t].error = msg]
    /\ UNCHANGED <<evidence_table, next_id>>

\* lines 67-84: the membership test, the loop and `await session.commit()`,
\* which inserts every added Evidence in one transaction
EvidenceTaskSave(t) ==
    /\ t \in 1..Len(ev_task)
    /\ ev_task[t].pc = "save"
    /\ LET analysis == ev_task[t].analysis
       IN  IF analysis.t \in {"NoneType", "int"}
           THEN RaiseInEvidenceTask(t, NotIterableText(analysis))
           ELSE IF ~HasKey(analysis, "recommended_evidence")
           THEN /\ ev_task' = [ev_task EXCEPT ![t].pc = "done"]
                /\ UNCHANGED <<evidence_table, next_id>>
           ELSE IF analysis.d.recommended_evidence.t \in {"NoneType", "int"}
           THEN RaiseInEvidenceTask(t, NotIterableText(analysis.d.recommended_evidence))
           ELSE LET new == IF analysis.d.recommended_evidence.t = "list"
                           THEN NewEvidences(analysis.d.recommended_evidence.l)
                           ELSE <<>>
                IN  IF \E i \in 1..Len(new) : ~EvidenceBindable(new[i])
                    THEN RaiseInEvidenceTask(t, BindErrorText)
                    ELSE /\ evidence_table' = evidence_table \cup EvidenceRows(new, next_id.evidence)
                         /\ next_id' = [next_id EXCEPT !.evidence = @ + Len(new)]
                         /\ ev_task' = [ev_task EXCEPT ![t].pc = "done"]
    /\ UNCHANGED <<http_response, ingestVars, rawVars, aggVars, llmVars, tlVars, rpVars, deleted>>

NextEvidence ==
    \/ AnalyzeEvidence
    \/ \E t \in 1..Len(ev_task), outcome \in EvidenceOutcomes : EvidenceTaskLLM(t, outcome)
    \/ \E t \in 1..Len(ev_task) : EvidenceTaskSave(t)

SpecEvidence == InitGen /\ [][NextEvidence]_vars

\* the recommendations of a reply that cannot become an Evidence row
Malformed(evidence_data) ==
    evidence_data.t # "dict" \/ ~EvidenceBindable(NewEvidence(evidence_data))

\* C14: when the reply carries a list of recommendations, a malformed one is
\* skipped and the final commit persists one Evidence row for every other
\* element of the list.
C14_OneRowPerWellFormedObject ==
    [][\A t \in 1..Len(ev_task) :
          (/\ ev_task[t].pc = "save"
           /\ ev_task'[t].pc = "done"
           /\ HasKey(ev_task[t].analysis, "recommended_evidence")
           /\ ev_task[t].analysis.d.recommended_evidence.t = "list") =>
              LET l == ev_task[t].analysis.d.recommended_evidence.l
                  other == {i \in 1..Len(l) : ~Malformed(l[i])}
              IN  /\ Cardinality(evidence_table') = Cardinality(evidence_table) + Cardinality(other)
                  /\ \A i \in other : \E row \in evidence_table' \ evidence_table :
                        row.title = ColumnText(l[i].d.title)]_vars

----------------------------------------------------------------------------
(* Lookups by id: get and delete of a Timeline, an Evidence and a Report *)

\* ids a client asks a table for: the ids handed out so far and one more
LookupIds(table) == 1..(next_id[table] + 1)

NotFound(route, id) == Response(route, "", id, ExceptHTTPException(404), "not found")
Found(route, id, body) == Response(route, "", id, 200, body)

\* get_timeline
GetTimeline(id) ==
    /\ http_response' =
          IF Exists(timelines, id)
          THEN Found("get_timeline", id, RowOf(timelines, id).description)
          ELSE NotFound("get_timeline", id)
    /\ UNCHANGED <<evVars, ingestVars, rawVars, aggVars, llmVars, genVars>>

\* delete_timeline
DeleteTimelineById(id) ==
    /\ IF Exists(timelines, id)
       THEN /\ DeleteTimelineRows(id)
            /\ http_response' = Found("delete_timeline", id, "deleted successfully")
       ELSE /\ http_response' = NotFound("delete_timeline", id)
            /\ UNCHANGED <<timelines, timeline_events, deleted>>
    /\ UNCHANGED <<evVars, ingestVars, rawVars, aggVars, llmVars, next_id, tl_req, tl_task, rpVars>>

\* get_evidence_by_id
GetEvidenceById(id) ==
    /\ http_response' =
          IF Exists(evidence_table, id)
          THEN Found("get_evidence_by_id", id, RowOf(evidence_table, id).title)
          ELSE NotFound("get_evidence_by_id", id)
    /\ UNCHANGED <<evVars, ingestVars, rawVars, aggVars, llmVars, genVars>>

\* delete_evidence
DeleteEvidence(id) ==
    /\ IF Exists(evidence_table, id)
       THEN /\ evidence_table' = evidence_table \ {RowOf(evidence_table, id)}
            /\ http_response' = Found("delete_evidence", id, "deleted successfully")
       ELSE /\ http_response' = NotFound("delete_evidence", id)
            /\ UNCHANGED evidence_table
    /\ UNCHANGED <<ev_task, ingestVars, rawVars, aggVars, llmVars, genVars>>

\* get_report
GetReport(id) ==
    /\ http_response' =
          IF Exists(reports, id)
          THEN Found("get_report", id, RowOf(reports, id).content)
          ELSE NotFound("get_report", id)
    /\ UNCHANGED <<evVars, ingestVars, rawVars, aggVars, llmVars, genVars>>

\* delete_report
DeleteReportById(id) ==
    /\ IF Exists(reports, id)
       THEN /\ DeleteReportRows(id)
            /\ http_response' = Found("delete_report", id, "deleted successfully")
       ELSE /\ http_response' = NotFound("delete_report", id)
            /\ UNCHANGED <<reports, deleted>>
    /\ UNCHANGED <<evVars, ingestVars, rawVars, aggVars, llmVars, tlVars, next_id, rp_req, rp_task>>

\* the requests that create rows, one evidence analysis, and the lookups;
\* the generation tasks are registered and take no step
NextLookup ==
    \/ GenerateTimelineCommit("", "", MaxRequests - next_id.reports)
    \/ \E id \in TimelineIds : GenerateTimelineReturn(id)
    \/ \E timeline_id \in LookupIds("timelines") : GenerateReportCommit(timeline_id)
    \/ \E id \in ReportIds : GenerateReportReturn(id)
    \/ ev_task = <<>> /\ AnalyzeEvidence
    \/ \E t \in 1..Len(ev_task) : EvidenceTaskLLM(t, Reply(R_EV_OK))
    \/ \E t \in 1..Len(ev_task) : EvidenceTaskSave(t)
    \/ \E id \in LookupIds("timelines") : GetTimeline(id)
    \/ \E id \in LookupIds("timelines") : DeleteTimelineById(id)
    \/ \E id \in LookupIds("evidence") : GetEvidenceById(id)
    \/ \E id \in LookupIds("evidence") : DeleteEvidence(id)
    \/ \E id \in LookupIds("reports") : GetReport(id)
    \/ \E id \in LookupIds("reports") : DeleteReportById(id)

SpecLookup == InitGen /\ [][NextLookup]_vars

\* the table a route looks its id up in
LookupTable(route) ==
    CASE route \in {"get_timeline", "delete_timeline", "generate_report"} -> timelines
      [] route \in {"get_evidence_by_id", "delete_evidence"} -> evidence_table
      [] route \in {"get_report", "delete_report"} -> reports
      [] OTHER -> {}

LookupRoutes ==
    {"get_timeline", "delete_timeline", "generate_report", "get_evidence_by_id",
     "delete_evidence", "get_report", "delete_report"}

\* C13: a get or delete of a Timeline, an Evidence or a Report whose id has
\* no row, and a generate_report whose timeline_id has no row, is answered
\* with 404 and leaves the store unchanged (no Report row is created and no
\* task is registered).
C13_MissingRowIs404 ==
    [][(/\ http_response' # http_response
        /\ http_response'.route \in LookupRoutes
        /\ ~Exists(LookupTable(http_response'.route), http_response'.id)) =>
           /\ http_response'.status = 404
           /\ UNCHANGED <<timelines, timeline_events, reports, evidence_table, next_id,
                          tl_req, tl_task, rp_req, rp_task, ev_task>>]_vars

\* a Report was requested for a timeline that has been deleted, while
\* another timeline and an Evidence row exist
C13_Witness ==
    /\ http_response = NotFound("generate_report", 1)
    /\ http_response.status = 404
    /\ 1 \in deleted.timelines
    /\ timelines # {} /\ evidence_table # {}
    /\ reports = {} /\ rp_task = <<>>

----------------------------------------------------------------------------
(* The three ingestion paths side by side, and the upload status endpoint *)

MaxIngestions == 3

\* ingestion requests accepted so far
IngestCount == Len(em_task) + Len(pdf_task) + (IF chat_task.pc = "none" THEN 0 ELSE 1)

\* the keys get_chat_messages and get_pdf_documents look for in `filters`
ChatFilterKeys == {"sender", "start_date", "end_date", "content"}
PdfFilterKeys == {"file_name", "content"}

\* ChatService.get_chat_messages for a filter dict that has none of the four
\* keys: no WHERE clause is added, every ChatLog is returned
GetChatMessages(filters) ==
    CASE DOMAIN filters \cap ChatFilterKeys = {} -> chats

\* PDFService.get_pdf_documents for a filter dict that has none of the two keys
GetPdfDocuments(filters) ==
    CASE DOMAIN filters \cap PdfFilterKeys = {} -> pdfs

\* check_upload_status
CheckUploadStatus(filename) ==
    /\ http_response' =
          IF Ext(filename) = ".txt"
          THEN LET result == GetChatMessages([file_path |-> CHAT_UPLOAD_DIR \o "/" \o filename])
               IN  IF result # {}
                   THEN [Response("check_upload_status", filename, 0, 200, "completed")
                            EXCEPT !.count = Cardinality(result)]
                   ELSE Response("check_upload_status", filename, 0, 200, "processing")
          ELSE IF Ext(filename) = ".pdf"
          THEN LET result == GetPdfDocuments([file_path |-> PDF_UPLOAD_DIR \o "/" \o filename])
               IN  IF result # {}
                   THEN Response("check_upload_status", filename, 0, 200, "completed")
                   ELSE Response("check_upload_status", filename, 0, 200, "processing")
          ELSE Response("check_upload_status", filename, 0, ExceptException(400), "error")
    /\ UNCHANGED <<evVars, ingestVars, rawVars, aggVars, llmVars, genVars>>

\* file names a client asks the status of
StatusNames == {"invoice_00000000.pdf", "invoice_ffffffff.pdf", "chat_00000000.txt", "notes.docx"}

InitIngestAll == InitChat /\ chat_file = ScenarioFile

\* at most MaxIngestions uploads and fetches, their tasks, and status requests
NextIngest ==
    \/ /\ IngestCount < MaxIngestions
       /\ \E batch \in {b \in Batches : Len(b) = 0 \/ (Len(b) = 1 /\ b[1].email_id = "m2")} :
             FetchEmails(<<"client@example.com">>, batch)
    \/ \E t \in 1..Len(em_task) : SaveEmailsCheck(t)
    \/ \E t \in 1..Len(em_task) : SaveEmailsCommit(t)
    \/ /\ IngestCount < MaxIngestions
       /\ \E suffix \in Suffixes : UploadPdf("invoice.pdf", suffix, "text")
    \/ \E t \in 1..Len(pdf_task), readable \in BOOLEAN : ProcessPdfFile(t, readable)
    \/ \E t \in 1..Len(pdf_task) : SavePdfCheck(t)
    \/ \E t \in 1..Len(pdf_task) : SavePdfCommit(t)
    \/ /\ IngestCount < MaxIngestions
       /\ UploadChatLog("chat.txt", "00000000")
    \/ \E readable \in BOOLEAN : ProcessChatFile(<<2026, 11, 3, 8, 0, 0, 0>>, readable)
    \/ SaveChatMessages
    \/ \E filename \in StatusNames : CheckUploadStatus(filename)

SpecIngest == InitIngestAll /\ [][NextIngest]_vars

\* the task has ended after a failed or empty ingestion
FailedEmailTask(task) == task.pc = "done" /\ task.emails = <<>>
FailedPdfTask(task) == task.pc = "failed"
FailedChatTask(task) == task.pc = "done" /\ task.chat_messages = <<>>

\* C15: a failed or empty ingestion (fetch_emails or process_chat_file
\* returning [], process_pdf_file returning None) ends its task without a
\* row written to the Email, ChatLog or PDFDocument table and without a
\* response other than the "processing" the endpoint gave when it
\* registered the task.
C15_FailedIngestionLeavesTables ==
    [][/\ \A t \in 1..Len(pdf_task) :
             /\ (pdf_task[t].pc = "process" /\ pdf_task'[t].pc # "process"
                   /\ pdf_task'[t].extracted_text = "") =>
                    /\ FailedPdfTask(pdf_task'[t])
                    /\ UNCHANGED <<emails, chats, pdfs, http_response>>
             /\ FailedPdfTask(pdf_task[t]) => pdf_task'[t] = pdf_task[t]
       /\ \A t \in 1..Len(em_task) :
             FailedEmailTask(em_task[t]) => em_task'[t] = em_task[t]
       /\ (Len(em_task') > Len(em_task) /\ em_task'[Len(em_task')].emails = <<>>) =>
             /\ FailedEmailTask(em_task'[Len(em_task')])
             /\ UNCHANGED <<emails, chats, pdfs>>
       /\ (chat_task.pc = "save" /\ FailedChatTask(chat_task')) =>
             UNCHANGED <<emails, chats, pdfs, http_response>>
       /\ FailedChatTask(chat_task) => chat_task' = chat_task
       /\ (Len(em_task') > Len(em_task) \/ Len(pdf_task') > Len(pdf_task)
              \/ (chat_task.pc = "none" /\ chat_task'.pc # "none")) =>
             http_response'.status = 200 /\ http_response'.body = "processing"]_vars

\* all three kinds of ingestion have failed and nothing is stored
C15_Witness ==
    /\ \E t \in 1..Len(em_task) : FailedEmailTask(em_task[t])
    /\ \E t \in 1..Len(pdf_task) : FailedPdfTask(pdf_task[t])
    /\ FailedChatTask(chat_task)
    /\ emails = {} /\ chats = {} /\ pdfs = {}
    /\ http_response.body = "processing"

\* the rows of the uploaded file a status request names
RowsOfFile(filename) ==
    IF Ext(filename) = ".txt"
    THEN {row \in chats : row.file_path = CHAT_UPLOAD_DIR \o "/" \o filename}
    ELSE {row \in pdfs : row.file_path = PDF_UPLOAD_DIR \o "/" \o filename}

\* C16: check_upload_status answers "completed" exactly when rows whose
\* file_path is the named uploaded file exist (for a chat log with the
\* number of those rows as count), and "processing" otherwise.
C16_StatusOfNamedFile ==
    [][(/\ http_response' # http_response
        /\ http_response'.route = "check_upload_status"
        /\ Ext(http_response'.name) \in {".txt", ".pdf"}) =>
           /\ http_response'.body = "completed" <=> RowsOfFile(http_response'.name) # {}
           /\ http_response'.body = "processing" <=> RowsOfFile(http_response'.name) = {}
           /\ (http_response'.body = "completed" /\ Ext(http_response'.name) = ".txt") =>
                 http_response'.count = Cardinality(RowsOfFile(http_response'.name))]_vars

----------------------------------------------------------------------------
(* Rendering of the report text: routes/report.py, lines 108-172 *)

\* a structured result with all ten fields
FullReport ==
    JDict([title |-> JStr("Legal Report"),
           executive_summary |-> JStr("Strong case"),
           background |-> JStr("Supply contract"),
           timeline |-> JList(<<
               JDict([date |-> JStr("2024-01-02"), event |-> JStr("Contract signed"),
                      significance |-> JStr("Formation")]),
               JDict([event |-> JStr("Invoice disputed")])>>),
           key_issues |-> JList(<<
               JDict([issue |-> JStr("Late payment"), analysis |-> JStr("Breach"),
                      supporting_evidence |-> JList(<<JInt(1), JInt(2)>>)]),
               JDict([issue |-> JStr("Notice")])>>),
           evidence_evaluation |-> JStr("Reliable"),
           legal_implications |-> JStr("Damages"),
           recommendations |-> JList(<<JStr("Send notice"), JStr("File claim")>>),
           conclusion |-> JStr("Proceed"),
           appendix |-> JDict([recommended_evidence_details |-> JList(<<
               JDict([id |-> JInt(1), type |-> JStr("email"),
                      description |-> JStr("Contract text"), relevance |-> JStr("Terms")])>>)])])

ReportKeys == DOMAIN FullReport.d

\* the results that lack a subset of the fields
PartialReports == {JDict([k \in S |-> FullReport.d[k]]) : S \in SUBSET ReportKeys}

\* results with a field of the wrong type
MalformedReports ==
    {JNone,
     JDict([title |-> JStr("Legal Report"), timeline |-> JNone]),
     JDict([title |-> JStr("Legal Report"), recommendations |-> JInt(3)])}

\* generate_report_task of report 1 has received the structured result and
\* is about to render it; the timeline task has not started
InitRender ==
    /\ emails = {EmailRow(1, <<2024, 1, 1, 0, 0, 0, 0>>)}
    /\ chats = {ChatRow(1, <<2024, 1, 2, 0, 0, 0, 0>>)}
    /\ pdfs = {PdfRow(1)}
    /\ IdleAgg /\ IdleLLM /\ IdleEvidence /\ IdleIngest
    /\ timelines = {[id |-> 1, title |-> "Timeline of Contract Dispute",
                     description |-> PLACEHOLDER_TIMELINE]}
    /\ timeline_events = {}
    /\ reports = {[id |-> 1, title |-> "Legal Report: Contract Dispute Analysis",
                   content |-> PLACEHOLDER_REPORT, timeline_id |-> 1]}
    /\ next_id = [timelines |-> 1, timeline_events |-> 0, reports |-> 1, evidence |-> 0]
    /\ deleted = [timelines |-> {}, reports |-> {}]
    /\ tl_req = <<[NoRequest EXCEPT !.pc = "returned", !.response = "processing"]>>
    /\ tl_task = <<[NoTimelineTask EXCEPT !.pc = "scheduled"]>>
    /\ rp_req = <<[NoReportRequest EXCEPT !.timeline_id = 1, !.pc = "returned",
                                          !.response = "processing"]>>
    /\ \E report_data \in PartialReports \cup MalformedReports :
          rp_task = <<[NoReportTask EXCEPT
                          !.pc = "write",
                          !.timeline_data = [title |-> "Timeline of Contract Dispute",
                                             overview |-> PLACEHOLDER_TIMELINE,
                                             events |-> <<>>],
                          !.report_data = report_data,
                          !.llm_calls = 1]>>

NextRender ==
    \/ \E id \in ReportIds : ReportTaskWrite(id)
    \/ \E id \in ReportIds : ReportTaskExcept(id)

SpecRender == InitRender /\ [][NextRender]_vars

\* the fixed section order
SectionOrder ==
    <<"title", "executive_summary", "background", "timeline", "key_issues",
      "evidence_evaluation", "legal_implications", "recommendations", "conclusion", "appendix">>

\* the text of each section of FullReport, written out
ExpectedSection ==
    [title |-> "# Legal Report\n\n",
     executive_summary |-> "## Executive Summary\n\nStrong case\n\n",
     background |-> "## Background and Context\n\nSupply contract\n\n",
     timeline |-> "## Timeline of Key Events\n\n### 2024-01-02: Contract signed\n\nFormation\n\n### Unknown date: Invoice disputed\n\n\n\n",
     key_issues |-> "## Analysis of Key Issues\n\n### Late payment\n\nBreach\n\n**Supporting Evidence:**\n\n- Evidence ID: 1\n- Evidence ID: 2\n\n### Notice\n\n\n\n",
     evidence_evaluation |-> "## Evaluation of Evidence\n\nReliable\n\n",
     legal_implications |-> "## Legal Implications\n\nDamages\n\n",
     recommendations |-> "## Recommendations\n\n- Send notice\n- File claim\n\n",
     conclusion |-> "## Conclusion\n\nProceed\n\n",
     appendix |-> "## Appendix: Recommended Evidence Details\n\n### Evidence 1 (email)\n\n**Description:** Contract text\n\n**Relevance:** Terms\n\n"]

\* the sections of the fields in `present`, in the fixed order
ExpectedContent(present) ==
    Join([i \in 1..Len(SectionOrder) |->
            IF SectionOrder[i] \in present THEN ExpectedSection[SectionOrder[i]] ELSE ""])

\* C17: whatever subset of the ten fields the result lacks, rendering raises
\* no error and the stored text is the sections of the fields present, in the
\* order title, executive summary, background, timeline, key issues (with
\* their supporting-evidence bullets), evidence evaluation, legal
\* implications, recommendations, conclusion, appendix.
C17_FixedSectionOrder ==
    \A id \in 1..Len(rp_task) :
        rp_task[id].report_data \in PartialReports =>
            /\ rp_task[id].pc # "except"
            /\ rp_task[id].pc = "done" =>
                  /\ rp_task[id].error = ""
                  /\ RowOf(reports, id).content = ExpectedContent(DOMAIN rp_task[id].report_data.d)

\* a result with only the title, the key issues and the conclusion has
\* been rendered
C17_Witness ==
    /\ rp_task[1].pc = "done"
    /\ DOMAIN rp_task[1].report_data.d = {"title", "key_issues", "conclusion"}
    /\ RowOf(reports, 1).content =
          "# Legal Report\n\n## Analysis of Key Issues\n\n### Late payment\n\nBreach\n\n**Supporting Evidence:**\n\n- Evidence ID: 1\n- Evidence ID: 2\n\n### Notice\n\n\n\n## Conclusion\n\nProceed\n\n"

----------------------------------------------------------------------------
(* Further claims about the aggregation stage *)

\* the merged list before the sort: emails, then chats, then PDFs, each in
\* retrieval order
MergedList == FormatEvents(agg_in.emails, agg_in.chats, agg_in.pdfs)

PositionIn(seq, item) == CHOOSE i \in 1..Len(seq) : seq[i] = item

\* C18: the aggregated list is a rearrangement of the merged list in which
\* two dated items with equal timestamps keep their order from the merged
\* list, and the undated items (undated emails and chats together with the
\* PDFs) come after all dated items as one tail in merged-list order.
C18_StableSortUndatedTail ==
    agg_pc = "done" =>
        /\ Len(agg_events) = Len(MergedList)
        /\ Range(agg_events) = Range(MergedList)
        /\ \A i, j \in 1..Len(MergedList) :
              (/\ i < j
               /\ \/ /\ MergedList[i].date # NULL /\ MergedList[j].date # NULL
                     /\ ItemTimestamp(MergedList[i]) = ItemTimestamp(MergedList[j])
                  \/ MergedList[i].date = NULL /\ MergedList[j].date = NULL) =>
                 PositionIn(agg_events, MergedList[i]) < PositionIn(agg_events, MergedList[j])
        /\ \A i, j \in 1..Len(agg_events) :
              (agg_events[i].date = NULL /\ agg_events[j].date # NULL) => j < i

\* two emails with the same timestamp retrieved as 2, 1 stay in that order,
\* the undated chat follows them
C18_Witness ==
    /\ agg_pc = "done"
    /\ Len(agg_in.emails) = 2
    /\ agg_in.emails[1].id = 2 /\ agg_in.emails[2].id = 1
    /\ agg_in.emails[1].date # NULL /\ agg_in.emails[1].date = agg_in.emails[2].date
    /\ Len(agg_in.chats) = 1 /\ agg_in.chats[1].date_time = NULL
    /\ [i \in 1..Len(agg_events) |-> <<agg_events[i].source_type, agg_events[i].source_id>>]
          = << <<"email", 2>>, <<"email", 1>>, <<"chat", 1>> >>

\* a timestamp lies within the bounds given as text; a bound is given when
\* the parameter is not empty
WithinGiven(ts, start_date, end_date) ==
    /\ start_date # "" =>
          ts # NULL /\ StrptimeYmd(start_date) # NULL /\ DtLeq(StrptimeYmd(start_date), ts)
    /\ end_date # "" =>
          ts # NULL /\ StrptimeYmd(end_date) # NULL /\ DtLeq(ts, StrptimeYmd(end_date))

\* a timestamp lies within the bounds given in the format YYYY-MM-DD; a
\* parameter in another format is no bound
WithinParsed(ts, start_date, end_date) ==
    /\ StrptimeYmd(start_date) # NULL => ts # NULL /\ DtLeq(StrptimeYmd(start_date), ts)
    /\ StrptimeYmd(end_date) # NULL => ts # NULL /\ DtLeq(ts, StrptimeYmd(end_date))

\* C19 as stated: the aggregated sequence holds exactly the emails and chats
\* whose timestamp lies within the given bounds, and every PDF.
C19_ExactlyWithinGivenBounds ==
    agg_pc = "done" =>
        LET expected ==
                {EmailItem(e) : e \in {x \in emails : WithinGiven(x.date, agg_in.start_date, agg_in.end_date)}}
                  \cup {ChatItem(c) : c \in {x \in chats : WithinGiven(x.date_time, agg_in.start_date, agg_in.end_date)}}
                  \cup {PdfItem(p) : p \in pdfs}
        IN  Range(agg_events) = expected /\ Len(agg_events) = Cardinality(expected)

\* C19, amended: the aggregated sequence holds exactly the emails and chats
\* whose timestamp lies within the bounds given in the format YYYY-MM-DD
\* (start <= timestamp <= end, a bound that is absent or in another format is
\* not applied), and every PDF.
C19_ExactlyWithinParsedBounds ==
    agg_pc = "done" =>
        LET expected ==
                {EmailItem(e) : e \in {x \in emails : WithinParsed(x.date, agg_in.start_date, agg_in.end_date)}}
                  \cup {ChatItem(c) : c \in {x \in chats : WithinParsed(x.date_time, agg_in.start_date, agg_in.end_date)}}
                  \cup {PdfItem(p) : p \in pdfs}
        IN  Range(agg_events) = expected /\ Len(agg_events) = Cardinality(expected)

\* with only the end bound 2024-01-02, the email of 2024-01-01 and the PDF
\* are in the sequence and the chat of 2024-01-10 is not
C19_Witness ==
    /\ agg_pc = "done"
    /\ agg_in.start_date = "" /\ agg_in.end_date = "2024-01-02"
    /\ emails = {EmailRow(1, <<2024, 1, 1, 0, 0, 0, 0>>)}
    /\ chats = {ChatRow(1, <<2024, 1, 10, 9, 15, 0, 500000>>)}
    /\ pdfs = {PdfRow(1)}
    /\ [i \in 1..Len(agg_events) |-> agg_events[i].source_type] = <<"email", "pdf">>

----------------------------------------------------------------------------
(* The lifecycle of a Timeline and a Report row *)

\* the step keeps the row `id` and changes its description / content
TimelineRewritten(id) ==
    /\ Exists(timelines, id) /\ Exists(timelines, id)'
    /\ RowOf(timelines, id)'.description # RowOf(timelines, id).description
ReportRewritten(id) ==
    /\ Exists(reports, id) /\ Exists(reports, id)'
    /\ RowOf(reports, id)'.content # RowOf(reports, id).content

\* a row enters the table with the placeholder text
EntersCreated ==
    /\ \A id \in 1..next_id.timelines' :
          (~Exists(timelines, id) /\ Exists(timelines, id)') =>
             RowOf(timelines, id)'.description = PLACEHOLDER_TIMELINE
    /\ \A id \in 1..next_id.reports' :
          (~Exists(reports, id) /\ Exists(reports, id)') =>
             RowOf(reports, id)'.content = PLACEHOLDER_REPORT

----------------------------------------------------------------------------
(* Further chat ingestion claims *)

\* the timestamp of a header when the formats are tried as month/day/year
\* H:M, day/month/year H:M, month/day/year H:M:S, day/month/year H:M:S and
\* the first success is taken; the instant `now` when all four fail
FirstSuccessOrNow(line, now) ==
    LET mdy_hm == Strptime(line.date, line.time, [month_first |-> TRUE, seconds |-> FALSE])
        dmy_hm == Strptime(line.date, line.time, [month_first |-> FALSE, seconds |-> FALSE])
        mdy_hms == Strptime(line.date, line.time, [month_first |-> TRUE, seconds |-> TRUE])
        dmy_hms == Strptime(line.date, line.time, [month_first |-> FALSE, seconds |-> TRUE])
    IN  CASE mdy_hm # ValueError -> mdy_hm
          [] dmy_hm # ValueError -> dmy_hm
          [] mdy_hms # ValueError -> mdy_hms
          [] dmy_hms # ValueError -> dmy_hms
          [] OTHER -> now

\* headers whose date reads both month-first and day-first
Ambiguous(line) ==
    /\ Strptime(line.date, line.time, [month_first |-> TRUE, seconds |-> line.time.s # -1]) # ValueError
    /\ Strptime(line.date, line.time, [month_first |-> FALSE, seconds |-> line.time.s # -1]) # ValueError

\* C21: process_chat_file on a readable file keeps every match; each
\* message is dated by the first of the four formats, in their fixed order,
\* that parses its header (an ambiguous date is read month-first, 1/2/24 is
\* January 2), and by the current instant when all four fail.
C21_FirstFormatWinsElseNow ==
    [][\A now \in Clock :
          ProcessChatFile(now, TRUE) =>
              /\ Len(chat_task'.chat_messages) = Len(chat_file)
              /\ \A i \in 1..Len(chat_file) :
                    LET line == chat_file[i]
                        stored == chat_task'.chat_messages[i].date_time
                    IN  /\ stored = FirstSuccessOrNow(line, now)
                        /\ Ambiguous(line) =>
                              /\ stored[2] = line.date.a
                              /\ stored[3] = line.date.b
                        /\ (line.date.a = 1 /\ line.date.b = 2 /\ line.date.y = 24 /\ Ambiguous(line)) =>
                              (stored[1] = 2024 /\ stored[2] = 1 /\ stored[3] = 2)]_vars

\* a file read with an ambiguous date, taken month-first, followed by a
\* header no format parses, dated by the clock
C21_Witness ==
    /\ chat_task.pc = "save"
    /\ chat_file = <<LineSeconds, LineNoTime>>
    /\ Len(chat_task.chat_messages) = 2
    /\ chat_task.chat_messages[1].date_time = <<2024, 1, 2, 10, 30, 15, 0>>
    /\ chat_task.chat_messages[2].date_time \in Clock

----------------------------------------------------------------------------
(* The timeline writer on replies that vary the events' dates and sources *)

WriterOutcomes ==
    {Reply(R_TL_OK), Reply(R_TL_DATES), Reply(R_TL_SOURCES), Reply(R_TL_NULLEVENTS),
     Reply(R_TL_LISTOVERVIEW), TransportError("Request timed out")}

NextWriter ==
    \/ GenerateTimelineCommit("", "", MaxTimelines)
    \/ \E id \in TimelineIds : GenerateTimelineReturn(id)
    \/ \E id \in TimelineIds :
          \E es \in Orderings(emails), cs \in Orderings(chats), ps \in Orderings(pdfs) :
              TimelineTaskFetch(id, es, cs, ps)
    \/ \E id \in TimelineIds, outcome \in WriterOutcomes : TimelineTaskLLM(id, outcome)
    \/ \E id \in TimelineIds : TimelineTaskOverview(id)
    \/ \E id \in TimelineIds : TimelineTaskEvents(id)
    \/ \E id \in TimelineIds : TimelineTaskEventsCommit(id)
    \/ \E id \in TimelineIds : TimelineTaskExcept(id)
    \/ \E id \in TimelineIds : DeleteTimeline(id)

SpecWriter == InitGen /\ [][NextWriter]_vars

\* the event objects of a result, <<>> when it has no list of events
HasEventList(timeline_data) ==
    HasKey(timeline_data, "events") /\ timeline_data.d.events.t = "list"
EventObjects(timeline_data) ==
    IF HasEventList(timeline_data) THEN timeline_data.d.events.l ELSE <<>>

\* an event object whose fields other than the date are texts, the source of
\* the form type:number
PlainButDate(event_data) ==
    /\ event_data.t = "dict"
    /\ {"title", "description", "source"} \subseteq DOMAIN event_data.d
    /\ event_data.d.title.t = "str"
    /\ event_data.d.description.t = "str"
    /\ event_data.d.source \in {JStr("email:1"), JStr("chat:2"), JStr("pdf:7")}

\* the date an event object is to be stored with: the instant its date text
\* denotes in ISO-8601 or as YYYY-MM-DD, no date otherwise
DateOrNull(event_data) ==
    IF "date" \in DOMAIN event_data.d /\ event_data.d.date \in {JStr("2024-01-02"), JStr("2024-1-2")}
    THEN <<2024, 1, 2, 0, 0, 0, 0>>
    ELSE NULL

\* C22: the timeline writer drops no event because of its date. For a
\* result whose event objects are plain but for their dates, the loop keeps
\* every object, and the commit writes one TimelineEvent row per object,
\* dated as its date text reads in ISO-8601 or as YYYY-MM-DD and with a
\* null date when the text is neither, or is missing, empty or no text.
C22_NoEventDroppedForItsDate ==
    [][\A id \in TimelineIds :
          LET objects == EventObjects(tl_task[id].timeline_data)
              plain == /\ HasEventList(tl_task[id].timeline_data)
                       /\ \A i \in 1..Len(objects) : PlainButDate(objects[i])
          IN  /\ (TimelineTaskEvents(id) /\ Exists(timelines, id) /\ plain) =>
                    /\ tl_task'[id].pc = "commit"
                    /\ Len(tl_task'[id].new_events) = Len(objects)
              /\ (TimelineTaskEventsCommit(id) /\ plain) =>
                    /\ tl_task'[id].pc = "done"
                    /\ Cardinality(timeline_events' \ timeline_events) = Len(objects)
                    /\ \A i \in 1..Len(objects) :
                          \E row \in timeline_events' \ timeline_events :
                              /\ row.id = next_id.timeline_events + i
                              /\ row.timeline_id = id
                              /\ row.title = objects[i].d.title.s
                              /\ row.date = DateOrNull(objects[i])]_vars

\* the seven events of the reply with the varied dates are written, two of
\* them dated and five with a null date
C22_Witness ==
    /\ \E id \in TimelineIds :
          /\ tl_task[id].pc = "done"
          /\ tl_task[id].timeline_data = JsonLoads(R_TL_DATES)
          /\ Cardinality({e \in timeline_events : e.timeline_id = id}) = 7
          /\ Cardinality({e \in timeline_events : e.timeline_id = id /\ e.date = NULL}) = 5
          /\ \E e \in timeline_events : e.timeline_id = id /\ e.title = "Notice sent" /\ e.date # NULL

\* str.split(":", 1) on the source texts: the text before the first colon
\* and everything after it
SplitFirstColon(s) ==
    CASE s = "email:1" -> <<"email", "1">>
      [] s = "chat:2" -> <<"chat", "2">>
      [] s = "pdf:7" -> <<"pdf", "7">>
      [] s = "email:12:34" -> <<"email", "12:34">>
      [] s = "email:abc" -> <<"email", "abc">>
      [] s = "email:²" -> <<"email", "²">>
      [] OTHER -> <<s>>

\* the integer a suffix denotes, 0 when it is not a valid integer
IntOrZero(s) ==
    CASE s = "1" -> 1 [] s = "2" -> 2 [] s = "7" -> 7 [] OTHER -> 0

\* C23: for every event object with a text source, the writer keeps the
\* event; when the source has a colon, source_type is the text before the
\* first colon and source_id the integer value of everything after it, or 0
\* when that suffix is no valid integer ("email:12:34" gives 0).
C23_SplitOnFirstColon ==
    [][\A id \in TimelineIds :
          LET objects == EventObjects(tl_task[id].timeline_data)
          IN  (/\ TimelineTaskEvents(id)
               /\ Exists(timelines, id)
               /\ HasEventList(tl_task[id].timeline_data)
               /\ \A i \in 1..Len(objects) : HasKey(objects[i], "source") /\ objects[i].d.source.t = "str") =>
                  /\ Len(tl_task'[id].new_events) = Len(objects)
                  /\ \A i \in 1..Len(objects) :
                        LET parts == SplitFirstColon(objects[i].d.source.s)
                            new == tl_task'[id].new_events[i]
                        IN  Len(parts) = 2 =>
                                /\ new.source_type = parts[1]
                                /\ new.source_id = IntOrZero(parts[2])]_vars

----------------------------------------------------------------------------
(* Ownership of the events and independence of the tasks *)

\* C24: in every reachable state, under any interleaving of the generation
\* tasks with delete_timeline, every TimelineEvent row belongs to an
\* existing Timeline: no row names a Timeline that was deleted.
C24_EveryEventHasItsTimeline ==
    \A e \in timeline_events :
        /\ Exists(timelines, e.timeline_id)
        /\ e.timeline_id \notin deleted.timelines

\* a step of the background task of timeline id, of report id
TimelineTaskStep(id) == tl_task[id].pc # "unscheduled" /\ tl_task'[id] # tl_task[id]
ReportTaskStep(id) == rp_task[id].pc # "unscheduled" /\ rp_task'[id] # rp_task[id]

\* the rows of a table other than row id are the same before and after
OtherRowsSame(table, id) == {row \in table : row.id # id} = {row \in table' : row.id # id}

----------------------------------------------------------------------------
(* The whole pipeline: ingestion, timeline, evidence and report tasks side by side *)

\* requests (ingestions, generations, analyses) accepted in one run
MaxTasks == 2

TaskCount == Len(tl_task) + Len(rp_task) + Len(ev_task) + IngestCount

\* stored raw records of every kind, a chat file ready for upload
InitPipeline ==
    /\ emails = {EmailRow(1, <<2024, 1, 1, 0, 0, 0, 0>>)}
    /\ chats = {ChatRow(1, <<2024, 1, 2, 0, 0, 0, 0>>)}
    /\ pdfs = {PdfRow(1)}
    /\ IdleAgg
    /\ IdleLLM
    /\ IdleGen
    /\ IdleEvidence
    /\ raw_next_id = [emails |-> 1, chat_logs |-> 1, pdfs |-> 1]
    /\ em_task = <<>> /\ pdf_task = <<>>
    /\ chat_file = ScenarioFile
    /\ chat_task = NoChatTask

\* the fetched batches: the stored message again with another body, a new
\* message
PipelineBatches ==
    {<<[email_id |-> "m1", date |-> <<2024, 1, 1, 0, 0, 0, 0>>, body |-> "body (edited)"]>>,
     <<[email_id |-> "m2", date |-> <<2024, 1, 1, 0, 0, 0, 0>>, body |-> "body"]>>}

NextPipeline ==
    \/ /\ TaskCount < MaxTasks
       /\ \E batch \in PipelineBatches : FetchEmails(<<"client@example.com">>, batch)
    \/ \E t \in 1..Len(em_task) : SaveEmailsCheck(t)
    \/ \E t \in 1..Len(em_task) : SaveEmailsCommit(t)
    \/ /\ TaskCount < MaxTasks
       /\ UploadPdf("invoice.pdf", "00000000", "text")
    \/ \E t \in 1..Len(pdf_task), readable \in BOOLEAN : ProcessPdfFile(t, readable)
    \/ \E t \in 1..Len(pdf_task) : SavePdfCheck(t)
    \/ \E t \in 1..Len(pdf_task) : SavePdfCommit(t)
    \/ /\ TaskCount < MaxTasks
       /\ UploadChatLog("chat.txt", "00000000")
    \/ \E readable \in BOOLEAN : ProcessChatFile(<<2026, 11, 3, 8, 0, 0, 0>>, readable)
    \/ SaveChatMessages
    \/ /\ TaskCount < MaxTasks
       /\ GenerateTimelineCommit("", "", MaxTasks)
    \/ \E id \in TimelineIds : GenerateTimelineReturn(id)
    \/ \E id \in TimelineIds :
          \E es \in Orderings(emails), cs \in Orderings(chats), ps \in Orderings(pdfs) :
              TimelineTaskFetch(id, es, cs, ps)
    \/ \E id \in TimelineIds, outcome \in {Reply(R_TL_OK), Reply(R_NULL)} : TimelineTaskLLM(id, outcome)
    \/ \E id \in TimelineIds : TimelineTaskOverview(id)
    \/ \E id \in TimelineIds : TimelineTaskEvents(id)
    \/ \E id \in TimelineIds : TimelineTaskEventsCommit(id)
    \/ \E id \in TimelineIds : TimelineTaskExcept(id)
    \/ /\ TaskCount < MaxTasks
       /\ AnalyzeEvidence
    \/ \E t \in 1..Len(ev_task), outcome \in {Reply(R_EV_OK), Reply(R_EV_LISTTITLE)} :
          EvidenceTaskLLM(t, outcome)
    \/ \E t \in 1..Len(ev_task) : EvidenceTaskSave(t)
    \/ /\ TaskCount < MaxTasks
       /\ \E timeline_id \in {row.id : row \in timelines} : GenerateReportCommit(timeline_id)
    \/ \E id \in ReportIds : GenerateReportReturn(id)
    \/ \E id \in ReportIds :
          \E events \in Orderings({e \in timeline_events : e.timeline_id = rp_req[id].timeline_id}) :
              ReportTaskFetch(id, events)
    \/ \E id \in ReportIds, outcome \in {Reply(R_RP_OK), Reply(R_NULL)} : ReportTaskLLM(id, outcome)
    \/ \E id \in ReportIds : ReportTaskWrite(id)
    \/ \E id \in ReportIds : ReportTaskExcept(id)

SpecPipeline == InitPipeline /\ [][NextPipeline]_vars

\* a step of a timeline, evidence or report task, or of their handlers
GenerationStep == tl_task' # tl_task \/ ev_task' # ev_task \/ rp_task' # rp_task

\* C26: raw records are never deleted or modified. Every step of a
\* timeline, evidence or report task, successful or failing, leaves the
\* Email, ChatLog and PDFDocument tables unchanged, and every ingestion step
\* keeps each stored raw record as it is: it can only add records.
C26_RawRecordsImmutable ==
    [][/\ emails \subseteq emails'
       /\ chats \subseteq chats'
       /\ pdfs \subseteq pdfs'
       /\ GenerationStep => (emails' = emails /\ chats' = chats /\ pdfs' = pdfs)]_vars

\* a timeline task has ended and an ingestion that fetched the stored
\* message again with another body has ended: the stored body is the old one
C26_Witness ==
    /\ Len(tl_task) = 1 /\ tl_task[1].pc = "done"
    /\ Len(em_task) = 1 /\ em_task[1].pc = "done"
    /\ em_task[1].emails[1].email_id = "m1"
    /\ em_task[1].emails[1].body = "body (edited)"
    /\ emails = {EmailRow(1, <<2024, 1, 1, 0, 0, 0, 0>>)}
    /\ Cardinality(chats) = 1 /\ Cardinality(pdfs) = 1

----------------------------------------------------------------------------
(* What a reader of the timeline tables can observe *)

\* the description the overview commit writes for a result
OverviewText(timeline_data) ==
    ColumnText(Get(timeline_data, "overview", JStr("Timeline generated successfully.")))

----------------------------------------------------------------------------
(* Reports and the lifecycle of their timeline *)

\* C28: generate_report on an existing timeline, whatever its lifecycle
\* state (created, populated or failed), creates the Report placeholder and
\* its task; when the task reads its input, it takes the description of
\* the Timeline and the events stored at that moment.
C28_ReportForAnyTimelineState ==
    [][/\ \A row \in timelines :
             GenerateReportCommit(row.id) =>
                /\ Cardinality(reports') = Cardinality(reports) + 1
                /\ \E r \in reports' \ reports :
                      /\ r.id = Len(rp_task')
                      /\ r.content = PLACEHOLDER_REPORT
                      /\ r.timeline_id = row.id
                /\ rp_task' = Append(rp_task, NoReportTask)
                /\ timelines' = timelines
       /\ \A id \in ReportIds :
             (rp_task[id].pc = "scheduled" /\ rp_task'[id].pc = "llm") =>
                LET stored == {e \in timeline_events : e.timeline_id = rp_req[id].timeline_id}
                    input == rp_task'[id].timeline_data
                IN  /\ input.overview = RowOf(timelines, rp_req[id].timeline_id).description
                    /\ Range(input.events) = stored
                    /\ Len(input.events) = Cardinality(stored)]_vars

\* a report requested for a timeline still in the created state: its task
\* has read the placeholder description and no events
C28_Witness ==
    /\ Len(rp_task) = 1
    /\ rp_task[1].pc = "llm"
    /\ rp_task[1].timeline_data.overview = PLACEHOLDER_TIMELINE
    /\ rp_task[1].timeline_data.events = <<>>
    /\ Exists(reports, 1) /\ RowOf(reports, 1).content = PLACEHOLDER_REPORT
    /\ tl_task[1].pc \in {"unscheduled", "scheduled", "llm", "overview"}

\* str(e) of the AttributeError raised by `timeline.title` on None
NoTimelineText == "'NoneType' object has no attribute 'title'"

\* C29: when the Timeline of a report is deleted after generate_report has
\* returned and before the report task reads it, the task fails at the
\* read: it goes to its handler without a model call, and it ends with the
\* Report row, which still exists, holding an error text that starts with
\* "Error generating report:".
C29_DeletedTimelineFailsReport ==
    [][\A id \in ReportIds :
          /\ (\E row \in timelines : row.id = rp_req[id].timeline_id /\ row \notin timelines') =>
                 (Exists(reports, id) => RowOf(reports, id) \in reports')
          /\ (/\ rp_task[id].pc = "scheduled"
              /\ rp_task'[id] # rp_task[id]
              /\ ~Exists(timelines, rp_req[id].timeline_id)) =>
                 /\ rp_task'[id].pc = "except"
                 /\ rp_task'[id].error = NoTimelineText
                 /\ rp_task'[id].llm_calls = 0
                 /\ reports' = reports
          /\ (rp_task[id].pc = "except" /\ rp_task[id].error = NoTimelineText /\ rp_task'[id] # rp_task[id]) =>
                 /\ rp_task'[id].pc = "done"
                 /\ rp_task'[id].llm_calls = 0
                 /\ Exists(reports, id) =>
                       /\ Exists(reports, id)'
                       /\ RowOf(reports, id)'.content = "Error generating report: " \o NoTimelineText
          /\ (rp_task[id].pc = "done" /\ rp_task[id].error = NoTimelineText) =>
                 /\ rp_task'[id] = rp_task[id]
                 /\ (Exists(reports, id) /\ Exists(reports, id)') =>
                       RowOf(reports, id)' = RowOf(reports, id)]_vars

\* the timeline was deleted after the request returned; the task has ended
\* in the failed state without a model call
C29_Witness ==
    /\ Len(rp_task) = 1
    /\ rp_req[1].response = "processing"
    /\ 1 \in deleted.timelines
    /\ rp_task[1].pc = "done"
    /\ rp_task[1].llm_calls = 0
    /\ Exists(reports, 1)
    /\ RowOf(reports, 1).content = "Error generating report: 'NoneType' object has no attribute 'title'"

----------------------------------------------------------------------------
(* Further email ingestion claims *)

\* ids of the messages a save found not stored when it looked them up
NewIds(task) == {task.new[i].email_id : i \in 1..Len(task.new)}

\* C30: save_emails is all-or-nothing per batch. Its lookups write nothing;
\* its one commit either stores a row for every message it found not
\* stored, or stores nothing and the save ends with an exception; it
\* stores nothing when the batch carries the same new id twice or when
\* another task has stored one of the ids since the lookup.
C30_BatchAllOrNothing ==
    [][\A t \in 1..Len(em_task) :
          /\ (em_task[t].pc = "check" /\ em_task'[t] # em_task[t]) => emails' = emails
          /\ (em_task[t].pc = "commit" /\ em_task'[t] # em_task[t]) =>
                LET new == em_task[t].new
                    repeated == \E i, j \in 1..Len(new) : i # j /\ new[i].email_id = new[j].email_id
                    raced == \E e \in emails : e.email_id \in NewIds(em_task[t])
                IN  \/ /\ em_task'[t].pc = "done"
                       /\ ~repeated /\ ~raced
                       /\ emails \subseteq emails'
                       /\ {e.email_id : e \in emails' \ emails} = NewIds(em_task[t])
                       /\ Cardinality(emails' \ emails) = Len(new)
                       /\ \A i \in 1..Len(new) :
                             \E e \in emails' \ emails :
                                 e.email_id = new[i].email_id /\ e.body = new[i].body
                    \/ /\ em_task'[t].pc = "failed"
                       /\ repeated \/ raced
                       /\ emails' = emails]_vars

\* two saves have ended: one lost the race for the id m2 and stored
\* nothing, though its batch also carried the new id m1
C30_Witness ==
    \E t, u \in 1..Len(em_task) :
        /\ em_task[t].pc = "failed"
        /\ em_task[u].pc = "done"
        /\ Len(em_task[t].emails) = 2
        /\ {em_task[t].emails[i].email_id : i \in 1..2} = {"m1", "m2"}
        /\ {e.email_id : e \in emails} = {"m2"}

====
